---- MODULE Spec2Model ----
(***************************************************************************)
(* A model of arca-bot's workflow core:                                    *)
(*   - the step engine (core/orchestrator.py, core/workflows/base.py);     *)
(*   - intake, the transaction store and the orchestrator's background     *)
(*     tasks (api/application/workflow_application_service.py,             *)
(*     core/services/transaction_service.py, core/orchestrator.py).        *)
(* A step is named by its insertion index in BaseWorkflow.steps (a dict,   *)
(* which iterates in insertion order).                                     *)
(***************************************************************************)
EXTENDS Integers, Sequences, FiniteSets, TLC

\* ------------------------------------------------------------------ bounds
\* Steps of a generic workflow (any required flags, any retry counts), the
\* largest retry_count drawn for one of its steps, and the steps of a
\* dependency graph whose steps keep the WorkflowStep defaults.
MaxSteps == 2
MaxRetryCount == 2
MaxGraphSteps == 3

\* WorkflowStep.retry_count's default, used by every step of the CCMA and
\* DDJJ workflows.
DefaultRetryCount == 3

\* ------------------------------------------------------- workflow definitions
\* CCMAWorkflow.define_steps: seven steps, each depending on the one before.
CcmaStepNames ==
    << "initialize_browser", "arca_login", "open_ccma_window", "calculate_debt",
       "handle_debt_window", "generate_vep", "select_payment_method" >>

\* DDJJWorkflow.define_steps: seven steps, each depending on the one before.
DdjjStepNames ==
    << "generate_vep_file", "arca_authentication", "open_ddjj_window",
       "navigate_to_vep_upload", "upload_vep_file", "generate_vep_from_file",
       "process_payments" >>

ChainDeps(n) == [i \in 1..n |-> IF i = 1 THEN {} ELSE {i - 1}]

\* A workflow whose steps keep the WorkflowStep defaults: required = True,
\* retry_count = 3.
DefaultSteps(id, n, deps) ==
    [id |-> id, n |-> n, depends_on |-> deps,
     required |-> [i \in 1..n |-> TRUE],
     retry_count |-> [i \in 1..n |-> DefaultRetryCount]]

CcmaWorkflow ==
    DefaultSteps("ccma_workflow", Len(CcmaStepNames), ChainDeps(Len(CcmaStepNames)))

DdjjWorkflow ==
    DefaultSteps("ddjj_workflow", Len(DdjjStepNames), ChainDeps(Len(DdjjStepNames)))

\* The depends_on relations over n steps that name other defined steps
\* (cycles included).
DependencyGraphs(n) ==
    { f \in [1..n -> SUBSET (1..n)] : \A i \in 1..n : i \notin f[i] }

\* Workflows of MaxSteps steps with every dependency graph, every choice of
\* required flags and every choice of retry counts in 0..MaxRetryCount.
GenericWorkflows ==
    { [id |-> "generic", n |-> MaxSteps, depends_on |-> d,
       required |-> r, retry_count |-> c] :
        d \in DependencyGraphs(MaxSteps),
        r \in [1..MaxSteps -> BOOLEAN],
        c \in [1..MaxSteps -> 0..MaxRetryCount] }

\* Workflows of MaxGraphSteps default steps with every dependency graph.
GraphWorkflows ==
    { DefaultSteps("graph", MaxGraphSteps, d) : d \in DependencyGraphs(MaxGraphSteps) }

Workflows == GenericWorkflows \cup GraphWorkflows \cup {CcmaWorkflow, DdjjWorkflow}

\* ------------------------------------------------ get_step_execution_order
\* OrderPass without the dependency test: steps are taken in insertion order.
RECURSIVE OrderPassIgnoringDeps(_, _, _)
OrderPassIgnoringDeps(w, acc, i) ==
    IF i > w.n THEN acc
    ELSE IF i \notin acc.executed
         THEN OrderPassIgnoringDeps(w, [executed |-> acc.executed \cup {i},
                                        order |-> Append(acc.order, i),
                                        progress |-> TRUE], i + 1)
         ELSE OrderPassIgnoringDeps(w, acc, i + 1)

\* One pass of the inner for loop over self.steps.items(), from step i on:
\* a step not yet executed whose dependencies are all executed is appended at
\* once, so a later step of the same pass may already rely on it.
RECURSIVE OrderPass(_, _, _)
OrderPass(w, acc, i) ==
    IF i > w.n THEN acc
    ELSE IF i \notin acc.executed /\ w.depends_on[i] \subseteq acc.executed
         THEN OrderPass(w, [executed |-> acc.executed \cup {i},
                            order |-> Append(acc.order, i),
                            progress |-> TRUE], i + 1)
         ELSE OrderPass(w, acc, i + 1)

\* OrderLoop that returns what it has when a pass makes no progress, instead
\* of raising.
RECURSIVE OrderLoopNoRaise(_, _)
OrderLoopNoRaise(w, acc) ==
    IF Cardinality(acc.executed) >= w.n
    THEN [raised |-> FALSE, order |-> acc.order]
    ELSE LET p == OrderPass(w, [acc EXCEPT !.progress = FALSE], 1)
         IN  IF ~p.progress
             THEN [raised |-> FALSE, order |-> acc.order]
             ELSE OrderLoopNoRaise(w, p)

\* The outer while loop: passes until every step is executed; a pass without
\* progress raises ValueError("Circular dependency detected ...").
RECURSIVE OrderLoop(_, _)
OrderLoop(w, acc) ==
    IF Cardinality(acc.executed) >= w.n
    THEN [raised |-> FALSE, order |-> acc.order]
    ELSE LET p == OrderPass(w, [acc EXCEPT !.progress = FALSE], 1)
         IN  IF ~p.progress
             THEN [raised |-> TRUE, order |-> << >>]
             ELSE OrderLoop(w, p)

GetStepExecutionOrder(w) ==
    OrderLoop(w, [executed |-> {}, order |-> << >>, progress |-> FALSE])

\* ------------------------------------------------ requests and the store
\* Concurrent requests, entries of one request, and distinct entry payloads.
NReq == 2
MaxEntries == 1
NEntryValues == 2
\* Entries of one request when requests are served one after the other.
MaxBatchEntries == 2

Kinds == {"ccma_workflow", "ddjj_workflow"}
EntryValues == 1..NEntryValues
EntrySeqs == UNION {[1..n -> EntryValues] : n \in 1..MaxEntries}
BatchEntrySeqs == UNION {[1..n -> EntryValues] : n \in 1..MaxBatchEntries}

\* A request: its workflow kind and its entries (credentials are the same in
\* every request).
Requests == [kind : Kinds, entries : EntrySeqs]
BatchRequests == [kind : Kinds, entries : BatchEntrySeqs]

\* generate_ccma_entry_hash / generate_ddjj_entry_hash: a digest of the
\* entry's fields.
EntryHash(kind, e) == << kind, "entry", << e >> >>

\* generate_ccma_workflow_hash / generate_ddjj_workflow_hash: a digest of the
\* cuit and the sorted entry strings.
WorkflowHash(kind, entries) ==
    << kind, "workflow", SortSeq(entries, LAMBDA a, b : a < b) >>

\* str(uuid.uuid4()) of the r-th request.
RunId(r) == << "run", "uuid4", << r >> >>

EntryKeys == {EntryHash(k, e) : k \in Kinds, e \in EntryValues}
RunKeys == {RunId(r) : r \in 1..NReq}
Keys == EntryKeys \cup RunKeys
Fingerprints ==
    EntryKeys \cup {WorkflowHash(k, es) : k \in Kinds, es \in EntrySeqs \cup BatchEntrySeqs}

NoKey == << "none", "none", << >> >>
\* A record: status, transaction_hash, request_data.workflow_exchange_id, and
\* of its results the status inside workflow_result and whether a
\* workflow_error entry is stored.
NoRecord ==
    [status |-> "absent", transaction_hash |-> NoKey, workflow_exchange_id |-> NoKey,
     workflow_result |-> "none", workflow_error |-> FALSE]

\* The background tasks one request can start: one per new entry.
MaxTasks == IF MaxEntries < MaxBatchEntries THEN MaxBatchEntries ELSE MaxEntries
TaskIds == (1..NReq) \X (1..MaxTasks)

\* --------------------------------------------------------------- variables
VARIABLES
    wf,        \* the workflow: id, n, and per step depends_on, required, retry_count
    steps,     \* per step: status, error
    epc,       \* where execute_workflow is
    order,     \* execution_order
    idx,       \* position of the step loop in execution_order
    attempt,   \* the attempt index of _execute_step's for loop
    result,    \* the WorkflowResult
    calls,     \* per step, how many times its handler was invoked
    invoked,   \* the steps in the order their handlers were first invoked
    events,    \* the WorkflowFinishedEvents handed to the publisher
    cleaned,   \* how many times workflow.cleanup() ran
    req,              \* per request: kind and entries
    ipc,              \* per request: where intake is
    ii,               \* per request: the index of intake's current loop
    processed,        \* per request: processed_entries (the entries found new)
    duplicates,       \* per request: duplicate_entries
    new_entries,      \* per request: new_entries
    response,         \* per request: the outcome returned to the client
    records,          \* the store's transaction:<key> hashes
    hash_index,       \* the store's transaction_hashes hash
    tpc,              \* per background task: where it is
    tresult,          \* per background task: the engine's result status
    tlog,             \* per background task: what it has done, in order
    workflows,        \* WorkflowOrchestrator.workflows, by workflow_id
    running_workflows,\* WorkflowOrchestrator._running_workflows, by run
    mpc,              \* per request: where its monitor task is
    published,        \* events handed to the publisher by background tasks
    created,          \* per entry fingerprint: create_transaction calls
    launched,         \* per entry fingerprint: workflows launched for it
    clock,            \* the time, in TTL units
    redis,            \* TransactionService on Redis: records, index, index expiry
    memory,           \* TransactionService in memory: _transactions and its key order
    last,             \* the last store call: its number, name and both results
    inserted,         \* per fingerprint: key, time and ttl of its last create
    errors_map,       \* the values of the errors dict handed to the classifier
    verdict,          \* what is_retryable_error and has_retryable_error returned
    backend,          \* the backend of the store the sweeper works on
    transaction_data, \* the Run record in that store
    rtask,            \* where the relaunched background task is
    sweeps,           \* process_retryable_transactions calls made
    relaunches,       \* execute_workflow_async calls made by the sweeper
    stats,            \* what the last sweep returned
    cancelled,        \* background tasks cancelled while awaiting the executor
    cleanup_error,    \* whether a close() call inside cleanup raised
    min_nodes,        \* SeleniumScaler.min_nodes
    max_nodes,        \* SeleniumScaler.max_nodes
    current_nodes,    \* SeleniumScaler.current_nodes
    scaler_now,       \* the time, in check intervals of the monitor
    last_activity_time, \* SeleniumMonitor.last_activity_time
    executing,        \* engine executions in progress on worker threads
    scall,            \* the last call on the scaler or the monitor
    exchange_id_var,  \* per execution context: the value of _exchange_id_var
    scope,            \* per correlation-id scope: its position and the ids it saw
    mon_backend,      \* the backend of the store the monitor task reads
    mon,              \* per Run: the stored status, the stashed result, the monitor
    anchors,          \* the entries that have a record in the store
    intake,           \* the request intake is serving, and how far it got
    ever_launched,    \* the entries for which a background task was started
    intakes,          \* the requests received so far
    entry_pair,       \* two W-A entries
    entry_hash        \* their fingerprints, once computed

engineVars ==
    << wf, steps, epc, order, idx, attempt, result, calls, invoked, events, cleaned >>

sysVars ==
    << req, ipc, ii, processed, duplicates, new_entries, response, records,
       hash_index, tpc, tresult, tlog, workflows, running_workflows, mpc,
       published, created, launched >>

storeVars == << clock, redis, memory, last, inserted >>

classifierVars == << errors_map, verdict >>

retryVars == << backend, transaction_data, rtask, sweeps, relaunches, stats >>

cancelVars == << cancelled >>

cleanupVars == << cleanup_error >>

scalerVars ==
    << min_nodes, max_nodes, current_nodes, scaler_now, last_activity_time,
       executing, scall >>

correlationVars == << exchange_id_var, scope >>

monitorVars == << mon_backend, mon >>

orphanVars == << anchors, intake, ever_launched, intakes >>

hashVars == << entry_pair, entry_hash >>

laterVars == << monitorVars, orphanVars, hashVars >>

extraVars == << cancelVars, cleanupVars, scalerVars, correlationVars, laterVars >>

unitVars == << storeVars, classifierVars, retryVars, extraVars >>

vars == << engineVars, sysVars, unitVars >>

NoResult ==
    [status |-> "running", steps_completed |-> 0, steps_failed |-> 0,
     errors |-> {}, orchestrator_error |-> FALSE]

\* The mutable part of a WorkflowStep as constructed, before execution.
NewStep == [status |-> "pending", error |-> "none"]

StepIds == 1..wf.n

\* WorkflowStatus / StepStatus values that end a run.
IsTerminal(status) == status \in {"completed", "failed", "cancelled"}

\* ------------------------------------------------------------ step engine
\* _should_skip_step: some dependency that is a step of the workflow is
\* FAILED and required.
ShouldSkipStep(st, i) ==
    \E d \in wf.depends_on[i] :
        d \in StepIds /\ st[d].status = "failed" /\ wf.required[d]

\* FinalStatus counting every FAILED step, required or not.
FinalStatusAnyFailed(st) ==
    IF Cardinality({i \in DOMAIN st : st[i].status = "failed"}) > 0
    THEN "failed"
    ELSE "completed"

\* The engine's final status: FAILED when some step is FAILED and required.
FinalStatus(st) ==
    IF Cardinality({i \in DOMAIN st : st[i].status = "failed" /\ wf.required[i]}) > 0
    THEN "failed"
    ELSE "completed"

\* AfterStep breaking the loop on any FAILED step, required or not.
AfterStepAnyFailure(st, i) ==
    IF st[i].status = "failed"
    THEN /\ epc' = "finalize"
         /\ idx' = idx
    ELSE /\ idx' = idx + 1
         /\ epc' = IF idx + 1 > Len(order) THEN "finalize" ELSE "loop"

\* AfterStep never breaking the loop.
AfterStepNoBreak(st, i) ==
    /\ idx' = idx + 1
    /\ epc' = IF idx + 1 > Len(order) THEN "finalize" ELSE "loop"

\* After _execute_step returns: a required step that FAILED breaks the loop;
\* otherwise the for loop takes the next step, and ends after the last one.
AfterStep(st, i) ==
    IF st[i].status = "failed" /\ wf.required[i]
    THEN /\ epc' = "finalize"
         /\ idx' = idx
    ELSE /\ idx' = idx + 1
         /\ epc' = IF idx + 1 > Len(order) THEN "finalize" ELSE "loop"

\* execute_workflow up to the step loop: reset, a fresh WorkflowResult, the
\* execution order. A cycle raises inside the try: the except branch sets
\* FAILED and errors["orchestrator"], and publishes.
EngineBegin ==
    /\ epc = "idle"
    /\ steps' = [i \in StepIds |-> NewStep]
    /\ LET o == GetStepExecutionOrder(wf)
       IN  IF o.raised
           THEN /\ result' = [NoResult EXCEPT !.status = "failed",
                                              !.orchestrator_error = TRUE]
                /\ order' = << >>
                /\ idx' = 1
                /\ epc' = "publish"
           ELSE /\ result' = NoResult
                /\ order' = o.order
                /\ idx' = 1
                /\ epc' = IF Len(o.order) = 0 THEN "finalize" ELSE "loop"
    /\ attempt' = 0
    /\ UNCHANGED << wf, calls, invoked, events, cleaned >>
    /\ UNCHANGED << sysVars, unitVars >>

\* One iteration of the step loop up to the first handler call: the step is
\* SKIPPED, or _execute_step sets it RUNNING. With retry_count = 0 the for
\* loop over range(retry_count) has no iteration and _execute_step returns.
StepLoop ==
    /\ epc = "loop"
    /\ idx <= Len(order)
    /\ LET i == order[idx]
       IN  IF ShouldSkipStep(steps, i)
           THEN /\ steps' = [steps EXCEPT ![i].status = "skipped"]
                /\ idx' = idx + 1
                /\ epc' = IF idx + 1 > Len(order) THEN "finalize" ELSE "loop"
                /\ attempt' = attempt
           ELSE LET st == [steps EXCEPT ![i].status = "running"]
                IN  /\ steps' = st
                    /\ attempt' = 0
                    /\ IF wf.retry_count[i] = 0
                       THEN AfterStep(st, i)
                       ELSE /\ epc' = "step"
                            /\ idx' = idx
    /\ UNCHANGED << wf, order, result, calls, invoked, events, cleaned >>
    /\ UNCHANGED << sysVars, unitVars >>

\* AttemptsLeft counting one attempt more than retry_count.
AttemptsLeftOffByOne(i, a) == a < wf.retry_count[i]

\* _execute_step after a falsy return or an exception in attempt a: another
\* attempt follows when a < step.retry_count - 1.
AttemptsLeft(i, a) == a < wf.retry_count[i] - 1

\* One handler invocation of _execute_step: a truthy return completes the
\* step; a falsy return or an exception retries while attempts are left and
\* otherwise fails the step, recording its error.
StepAttempt ==
    /\ epc = "step"
    /\ LET i == order[idx]
       IN  /\ calls' = [calls EXCEPT ![i] = @ + 1]
           /\ invoked' = IF calls[i] = 0 THEN Append(invoked, i) ELSE invoked
           /\ \E outcome \in {"true", "false", "raise"} :
                IF outcome = "true"
                THEN LET st == [steps EXCEPT ![i].status = "completed"]
                     IN  /\ steps' = st
                         /\ result' = [result EXCEPT !.steps_completed = @ + 1]
                         /\ attempt' = attempt
                         /\ AfterStep(st, i)
                ELSE IF AttemptsLeft(i, attempt)
                THEN /\ attempt' = attempt + 1
                     /\ UNCHANGED << steps, result, epc, idx >>
                ELSE LET st == [steps EXCEPT ![i].status = "failed",
                                             ![i].error = outcome]
                     IN  /\ steps' = st
                         /\ result' = [result EXCEPT !.steps_failed = @ + 1]
                         /\ attempt' = attempt
                         /\ AfterStep(st, i)
    /\ UNCHANGED << wf, order, events, cleaned >>
    /\ UNCHANGED << sysVars, unitVars >>

\* After the loop: the final status and the steps' errors.
Finalize ==
    /\ epc = "finalize"
    /\ result' = [result EXCEPT
                    !.status = FinalStatus(steps),
                    !.errors = {i \in StepIds : steps[i].error # "none"}]
    /\ epc' = "publish"
    /\ UNCHANGED << wf, steps, order, idx, attempt, calls, invoked, events, cleaned >>
    /\ UNCHANGED << sysVars, unitVars >>

\* _publish_workflow_finished_event: the event is built from the result and
\* handed to publish_workflow_finished_event.
Publish ==
    /\ epc = "publish"
    /\ events' = Append(events, [exchange_id |-> wf.id,
                                 success |-> result.status = "completed"])
    /\ epc' = "cleanup"
    /\ UNCHANGED << wf, steps, order, idx, attempt, result, calls, invoked, cleaned >>
    /\ UNCHANGED << sysVars, unitVars >>

\* What close() of arca_service or ccma_service does inside cleanup.
CleanupOutcomes == {"closed", "close_raised"}

\* BaseWorkflow.cleanup letting the error of close() out of the finally block.
CleanupPropagatesUncaught(outcome) == outcome = "close_raised"

\* BaseWorkflow.cleanup: the body is inside try / except Exception, so an
\* error of close() is logged and cleanup returns normally.
CleanupPropagates(outcome) == FALSE

\* finally: workflow.cleanup(); then the result is returned. An error that
\* left cleanup would leave execute_workflow in place of the result.
Cleanup ==
    /\ epc = "cleanup"
    /\ cleaned' = cleaned + 1
    /\ \E outcome \in CleanupOutcomes :
         /\ cleanup_error' = (outcome = "close_raised")
         /\ result' = IF CleanupPropagates(outcome)
                      THEN [result EXCEPT !.status = "raised"]
                      ELSE result
    /\ epc' = "done"
    /\ UNCHANGED << wf, steps, order, idx, attempt, calls, invoked, events >>
    /\ UNCHANGED << sysVars, storeVars, classifierVars, retryVars, cancelVars,
                    scalerVars, correlationVars, laterVars >>

\* The engine's variables before execute_workflow is called.
EngineIdle ==
    /\ steps = [i \in 1..wf.n |-> NewStep]
    /\ epc = "idle"
    /\ order = << >>
    /\ idx = 1
    /\ attempt = 0
    /\ result = NoResult
    /\ calls = [i \in 1..wf.n |-> 0]
    /\ invoked = << >>
    /\ events = << >>
    /\ cleaned = 0

NoRequest == [kind |-> "none", entries |-> << >>]
NoCounts == [total_entries |-> 0, processed_count |-> 0, duplicate_count |-> 0]
NoResponse == [code |-> "none", existing |-> NoKey, exchange_id |-> NoKey, counts |-> NoCounts]
NoTask == << 0, 0 >>

\* The service after start-up: an empty store, no request received, no
\* background task.
SystemIdle ==
    /\ req = [r \in 1..NReq |-> NoRequest]
    /\ ipc = [r \in 1..NReq |-> "idle"]
    /\ ii = [r \in 1..NReq |-> 1]
    /\ processed = [r \in 1..NReq |-> << >>]
    /\ duplicates = [r \in 1..NReq |-> << >>]
    /\ new_entries = [r \in 1..NReq |-> << >>]
    /\ response = [r \in 1..NReq |-> NoResponse]
    /\ records = [k \in Keys |-> NoRecord]
    /\ hash_index = [h \in Fingerprints |-> NoKey]
    /\ tpc = [t \in TaskIds |-> "none"]
    /\ tresult = [t \in TaskIds |-> "none"]
    /\ tlog = [t \in TaskIds |-> << >>]
    /\ workflows = [k \in Kinds |-> NoTask]
    /\ running_workflows = [r \in 1..NReq |-> NoTask]
    /\ mpc = [r \in 1..NReq |-> "none"]
    /\ published = [r \in 1..NReq |-> [success |-> 0, failure |-> 0]]
    /\ created = [h \in EntryKeys |-> 0]
    /\ launched = [h \in EntryKeys |-> 0]


\* ------------------------------------- TransactionService, both backends
\* Keys, fingerprints and TTLs of the store calls, the clock's range and the
\* number of calls in one history.
NStoreKeys == 2
NStoreHashes == 2
MaxTtl == 2
MaxClock == 2
MaxCalls == 3

StoreKeys == 1..NStoreKeys
StoreHashes == 1..NStoreHashes
Ttls == 1..MaxTtl
ResultMaps == {{}, {"a"}, {"b"}}
WrittenStatuses == {"running", "failed"}

\* The fields of a record the calls read or write; NoTx stands for a key that
\* holds nothing (None from get_transaction), 0 for no key.
NoTx == [status |-> "none", transaction_hash |-> 0, ttl_seconds |-> 0, results |-> {}]

EmptyRedis ==
    [records |-> [k \in StoreKeys |-> NoTx],
     expires |-> [k \in StoreKeys |-> 0],
     index |-> [h \in StoreHashes |-> 0],
     index_expires |-> 0]

EmptyMemory == [records |-> [k \in StoreKeys |-> NoTx], order |-> << >>]

\* Redis at time now: a key whose expiry time has come holds nothing; the
\* transaction_hashes hash is one key and goes with all its fields.
Expire(st, now) ==
    [records |-> [k \in StoreKeys |->
                    IF st.expires[k] <= now THEN NoTx ELSE st.records[k]],
     expires |-> st.expires,
     index |-> [h \in StoreHashes |->
                  IF st.index_expires <= now THEN 0 ELSE st.index[h]],
     index_expires |-> st.index_expires]

\* What can become of the batch pipeline_execute sends: executed and
\* acknowledged; not executed (the error comes before EXEC reaches the
\* server); executed, with the error raised while the reply is awaited.
PipelineOutcomes == {"executed", "not_executed", "reply_lost"}

\* pipeline_execute returns True when execute() returned, False on any
\* exception.
PipelineReturn(outcome) == outcome = "executed"

\* create_transaction on Redis with commands sent one by one instead of in a
\* batch: a failure leaves the record written and the index field not.
RedisCreateNoTransaction(st, k, h, ttl, now, outcome) ==
    [st EXCEPT !.records[k] = [status |-> "created", transaction_hash |-> h,
                               ttl_seconds |-> ttl, results |-> @.results],
               !.expires[k] = now + ttl,
               !.index[h] = IF outcome = "executed" THEN k ELSE @,
               !.index_expires = IF outcome = "executed" THEN now + ttl ELSE @]

\* create_transaction on Redis: one MULTI/EXEC batch of hset on the record
\* (fields not in the mapping, such as results, stay), expire on the record,
\* hset of the index field, and expire on the whole transaction_hashes key
\* with this call's ttl.
RedisCreate(st, k, h, ttl, now, outcome) ==
    IF outcome = "not_executed" THEN st
    ELSE [st EXCEPT !.records[k] = [status |-> "created", transaction_hash |-> h,
                                    ttl_seconds |-> ttl, results |-> @.results],
                    !.expires[k] = now + ttl,
                    !.index[h] = k,
                    !.index_expires = now + ttl]

\* create_transaction in memory: the dict entry is replaced; a key already in
\* the dict keeps its position.
MemoryCreate(st, k, h, ttl) ==
    [records |-> [st.records EXCEPT ![k] = [status |-> "created", transaction_hash |-> h,
                                            ttl_seconds |-> ttl, results |-> {}]],
     order |-> IF \E p \in 1..Len(st.order) : st.order[p] = k
               THEN st.order ELSE Append(st.order, k)]

\* check_duplicate on Redis: hget of the fingerprint in transaction_hashes.
RedisCheckDuplicate(st, h) == st.index[h]

\* check_duplicate in memory: the first key, in dict order, whose record has
\* the fingerprint.
MemoryCheckDuplicate(st, h) ==
    LET hits == {p \in 1..Len(st.order) : st.records[st.order[p]].transaction_hash = h}
    IN  IF hits = {} THEN 0
        ELSE st.order[CHOOSE p \in hits : \A q \in hits : p <= q]

\* update_status on Redis: False when the key does not exist; otherwise the
\* status is set, supplied results replace the stored ones (json.loads of the
\* parsed results raises TypeError and the old map is dropped), and the
\* record's expiry restarts from its stored ttl_seconds.
RedisUpdateStatus(st, k, status, res, now) ==
    IF st.records[k] = NoTx THEN st
    ELSE [st EXCEPT !.records[k].status = status,
                    !.records[k].results = IF res = {} THEN @ ELSE res,
                    !.expires[k] = now + st.records[k].ttl_seconds]

\* update_status in memory: supplied results are merged over the stored ones.
MemoryUpdateStatus(st, k, status, res) ==
    IF st.records[k] = NoTx THEN st
    ELSE [st EXCEPT !.records[k].status = status,
                    !.records[k].results = @ \cup res]

\* get_transactions_by_status on Redis: RedisClient has no keys method, the
\* AttributeError is caught and the empty map is returned.
RedisGetTransactionsByStatus(st, status) == {}

MemoryGetTransactionsByStatus(st, status) ==
    {k \in StoreKeys : st.records[k].status = status}

NoCall == [n |-> 0, op |-> "none", key |-> 0, hash |-> 0, ok |-> TRUE,
           redis |-> << >>, memory |-> << >>]

StoreIdle ==
    /\ clock = 0
    /\ redis = EmptyRedis
    /\ memory = EmptyMemory
    /\ last = NoCall
    /\ inserted = [h \in StoreHashes |-> [key |-> 0, at |-> 0, ttl |-> 0]]

\* One create_transaction call made on both backends.
StoreCreate ==
    /\ last.n < MaxCalls
    /\ \E k \in StoreKeys, h \in StoreHashes, ttl \in Ttls, outcome \in PipelineOutcomes :
         /\ redis' = RedisCreate(redis, k, h, ttl, clock, outcome)
         /\ memory' = MemoryCreate(memory, k, h, ttl)
         /\ inserted' = IF outcome = "not_executed" THEN inserted
                        ELSE [inserted EXCEPT ![h] = [key |-> k, at |-> clock, ttl |-> ttl]]
         /\ last' = [n |-> last.n + 1, op |-> "create_transaction", key |-> k,
                     hash |-> h, ok |-> last.ok /\ outcome = "executed",
                     redis |-> << PipelineReturn(outcome) >>, memory |-> << TRUE >>]
    /\ clock' = clock
    /\ UNCHANGED << engineVars, sysVars, classifierVars, retryVars, extraVars >>

\* One check_duplicate call.
StoreCheckDuplicate ==
    /\ last.n < MaxCalls
    /\ \E h \in StoreHashes :
         last' = [n |-> last.n + 1, op |-> "check_duplicate", key |-> 0, hash |-> h,
                  ok |-> last.ok,
                  redis |-> << RedisCheckDuplicate(redis, h) >>,
                  memory |-> << MemoryCheckDuplicate(memory, h) >>]
    /\ UNCHANGED << clock, redis, memory, inserted >>
    /\ UNCHANGED << engineVars, sysVars, classifierVars, retryVars, extraVars >>

\* One update_status call.
StoreUpdateStatus ==
    /\ last.n < MaxCalls
    /\ \E k \in StoreKeys, status \in WrittenStatuses, res \in ResultMaps :
         /\ redis' = RedisUpdateStatus(redis, k, status, res, clock)
         /\ memory' = MemoryUpdateStatus(memory, k, status, res)
         /\ last' = [n |-> last.n + 1, op |-> "update_status", key |-> k, hash |-> 0,
                     ok |-> last.ok,
                     redis |-> << redis.records[k] # NoTx >>,
                     memory |-> << memory.records[k] # NoTx >>]
    /\ UNCHANGED << clock, inserted >>
    /\ UNCHANGED << engineVars, sysVars, classifierVars, retryVars, extraVars >>

\* One get_transaction call.
StoreGetTransaction ==
    /\ last.n < MaxCalls
    /\ \E k \in StoreKeys :
         last' = [n |-> last.n + 1, op |-> "get_transaction", key |-> k, hash |-> 0,
                  ok |-> last.ok,
                  redis |-> << redis.records[k] >>,
                  memory |-> << memory.records[k] >>]
    /\ UNCHANGED << clock, redis, memory, inserted >>
    /\ UNCHANGED << engineVars, sysVars, classifierVars, retryVars, extraVars >>

\* One get_transactions_by_status call.
StoreGetTransactionsByStatus ==
    /\ last.n < MaxCalls
    /\ \E status \in {"created"} \cup WrittenStatuses :
         last' = [n |-> last.n + 1, op |-> "get_transactions_by_status", key |-> 0,
                  hash |-> 0, ok |-> last.ok,
                  redis |-> << RedisGetTransactionsByStatus(redis, status) >>,
                  memory |-> << MemoryGetTransactionsByStatus(memory, status) >>]
    /\ UNCHANGED << clock, redis, memory, inserted >>
    /\ UNCHANGED << engineVars, sysVars, classifierVars, retryVars, extraVars >>

\* Time passes between two calls.
StoreTick ==
    /\ clock < MaxClock
    /\ clock' = clock + 1
    /\ redis' = Expire(redis, clock + 1)
    /\ UNCHANGED << memory, last, inserted >>
    /\ UNCHANGED << engineVars, sysVars, classifierVars, retryVars, extraVars >>

NextStore ==
    \/ StoreCreate
    \/ StoreCheckDuplicate
    \/ StoreUpdateStatus
    \/ StoreGetTransaction
    \/ StoreGetTransactionsByStatus
    \/ StoreTick


\* ------------------------------------------------------ the error classifier
\* How many values an errors dict holds.
MaxErrors == 2

\* Exception classes: three that is_retryable_error lists (one of the
\* project's own, one built-in, one of Selenium), a subclass of a listed one,
\* and two that are not listed.
ExceptionTypes ==
    {"InfrastructureException", "TimeoutError", "WebDriverException",
     "TimeoutException", "ValueError", "BusinessException"}

\* The classes an instance of the class is an instance of.
ClassesOf(type) ==
    IF type = "TimeoutException" THEN {"TimeoutException", "WebDriverException"}
    ELSE {type}

RetryableTypes ==
    {"InfrastructureException", "BrowserSessionException", "TimeoutError",
     "ConnectionRefusedError", "ConnectionAbortedError", "ConnectionResetError",
     "ServiceUnavailable", "SessionNotCreatedException", "WebDriverException",
     "NoSuchDriverException", "BrowserNotConnectedException"}

\* Error texts, one that names a transient condition and one that does not.
ErrorTexts == {"Timeout occurred while waiting", "Invalid credentials"}

\* A Python value: its kind, a tag (the class of an exception, the text of a
\* string) and, for a dict or a list, its values in order.
ExceptionValues == {[kind |-> "exception", tag |-> t, items |-> << >>] : t \in ExceptionTypes}
PlainValues ==
    {[kind |-> "string", tag |-> t, items |-> << >>] : t \in ErrorTexts}
        \cup {[kind |-> "number", tag |-> "503", items |-> << >>],
              [kind |-> "none", tag |-> "None", items |-> << >>]}
AtomValues == ExceptionValues \cup PlainValues
InnerDicts == {[kind |-> "dict", tag |-> "", items |-> << a >>] : a \in AtomValues}
ContainerValues ==
    {[kind |-> c, tag |-> "", items |-> s] :
        c \in {"dict", "list"},
        s \in {<< >>} \cup {<< x >> : x \in AtomValues \cup InnerDicts}}
PythonValues == AtomValues \cup ContainerValues

IsException(v) == v.kind = "exception"

\* is_retryable_error deciding by the text as well.
IsRetryableErrorByText(v) ==
    \/ IsException(v) /\ ClassesOf(v.tag) \cap RetryableTypes # {}
    \/ v.kind = "string" /\ v.tag = "Timeout occurred while waiting"

\* is_retryable_error: isinstance against the listed classes, nothing else.
IsRetryableError(v) ==
    IsException(v) /\ ClassesOf(v.tag) \cap RetryableTypes # {}

\* has_retryable_error over the values of the dict: an exception is
\* classified, a dict is searched recursively, of a list the exceptions and
\* the dicts are looked at; any other value is passed over.
RECURSIVE HasRetryableError(_)
HasRetryableError(errors) ==
    \E i \in 1..Len(errors) :
        LET v == errors[i]
        IN  IF IsException(v) /\ IsRetryableError(v) THEN TRUE
            ELSE IF v.kind = "dict" THEN HasRetryableError(v.items)
            ELSE IF v.kind = "list"
            THEN \E j \in 1..Len(v.items) :
                    \/ IsException(v.items[j]) /\ IsRetryableError(v.items[j])
                    \/ v.items[j].kind = "dict" /\ HasRetryableError(v.items[j].items)
            ELSE FALSE

NoVerdict == [called |-> FALSE, each |-> << >>, any |-> FALSE]

ClassifierIdle ==
    /\ errors_map = << >>
    /\ verdict = NoVerdict

\* The caller puts one more value into the errors dict.
PutError ==
    /\ Len(errors_map) < MaxErrors
    /\ \E v \in PythonValues : errors_map' = Append(errors_map, v)
    /\ verdict' = NoVerdict
    /\ UNCHANGED << engineVars, sysVars, storeVars, retryVars, extraVars >>

\* is_retryable_error is called on every value and has_retryable_error on
\* the dict.
Classify ==
    /\ ~verdict.called
    /\ verdict' = [called |-> TRUE,
                   each |-> [i \in 1..Len(errors_map) |-> IsRetryableError(errors_map[i])],
                   any |-> HasRetryableError(errors_map)]
    /\ UNCHANGED << errors_map, engineVars, sysVars, storeVars, retryVars, extraVars >>

NextClassifier ==
    \/ PutError
    \/ Classify


\* --------------------------------------------------------- the retry sweeper
\* max_retries of process_retryable_transactions.
DefaultMaxRetries == 3
\* How many sweeps one history holds.
MaxSweeps == 5

\* What request_data of a record can look like: what intake stores ({entry,
\* workflow_exchange_id}), and the two shapes _infer_workflow_type knows
\* ({data: {period_from, ...}} and {data: {entries, ...}}).
RequestShapes == {"entry", "ccma_data", "ddjj_data"}

\* What the record's key is: a uuid string, or an entry hash (a sha256 hex
\* digest), which is what intake uses.
KeyKinds == {"uuid", "entry_hash"}

\* results.errors of the record.
RunErrors ==
    {<< >>,
     << [kind |-> "string", tag |-> "Timeout occurred while waiting", items |-> << >>] >>,
     << [kind |-> "exception", tag |-> "TimeoutError", items |-> << >>] >>,
     << [kind |-> "exception", tag |-> "ValueError", items |-> << >>] >>}

\* The Run record: retry_count is the record's own field (0 when absent),
\* results_retry_count the entry retry_count of its results map.
NoRun ==
    [key |-> "uuid", status |-> "absent", retry_count |-> 0, results_retry_count |-> 0,
     errors |-> << >>, request_data |-> "entry"]

NoStats == [total_found |-> 0, retry_initiated |-> 0, retry_failed |-> 0]

RetryIdle ==
    /\ backend = "memory"
    /\ transaction_data = NoRun
    /\ rtask = "none"
    /\ sweeps = 0
    /\ relaunches = 0
    /\ stats = NoStats

\* A store that holds one FAILED Run that was never retried. On Redis the
\* results were written with json.dumps(default=str): no exception object is
\* stored there.
RetryStart ==
    /\ backend \in {"redis", "memory"}
    /\ transaction_data \in [key : KeyKinds, status : {"failed"}, retry_count : {0},
                results_retry_count : {0}, errors : RunErrors,
                request_data : RequestShapes]
    /\ backend = "redis" => \A i \in 1..Len(transaction_data.errors) : ~IsException(transaction_data.errors[i])
    /\ rtask = "none"
    /\ sweeps = 0
    /\ relaunches = 0
    /\ stats = NoStats

\* _is_transaction_retryable: status FAILED, the record's retry_count below
\* max_retries, and a retryable error among results.errors.
IsTransactionRetryable(rec, max_retries) ==
    /\ rec.status = "failed"
    /\ rec.retry_count < max_retries
    /\ HasRetryableError(rec.errors)

\* get_retryable_transactions: on Redis the scan calls RedisClient.keys, which
\* does not exist, and the AttributeError leaves the list empty; in memory
\* every record of _transactions is tested.
GetRetryableTransactions(b, rec, max_retries) ==
    IF b = "redis" THEN FALSE ELSE IsTransactionRetryable(rec, max_retries)

\* _infer_workflow_type
InferWorkflowType(request_data) ==
    IF request_data = "ccma_data" THEN "ccma_workflow"
    ELSE IF request_data = "ddjj_data" THEN "ddjj_workflow"
    ELSE "none"

\* update_status(id, status, results) on the sweeper's store: in memory the
\* results are merged; on Redis they replace the stored map.
RunUpdateStatus(b, rec, status, keepsCount, count) ==
    [rec EXCEPT !.status = status,
                !.results_retry_count = IF keepsCount /\ b = "memory" THEN @ ELSE count,
                !.errors = IF b = "memory" THEN @ ELSE << >>]

\* retry_transaction up to the relaunch: the count read from the record plus
\* one goes into results, the status becomes PENDING.
RetryUpdate(b, rec) == RunUpdateStatus(b, rec, "pending", FALSE, rec.retry_count + 1)

\* Whether retry_transaction reaches execute_workflow_async and returns True:
\* the workflow type must be inferred and UUID(exchange_id) must not raise.
RetryLaunches(rec) ==
    /\ InferWorkflowType(rec.request_data) # "none"
    /\ rec.key = "uuid"

\* process_retryable_transactions(max_retries = 3) on the store: it does not
\* suspend in memory, and on Redis it finds nothing.
Sweep ==
    /\ sweeps < MaxSweeps
    /\ sweeps' = sweeps + 1
    /\ IF GetRetryableTransactions(backend, transaction_data, DefaultMaxRetries)
       THEN /\ transaction_data' = RetryUpdate(backend, transaction_data)
            /\ IF RetryLaunches(transaction_data)
               THEN /\ rtask' = "start"
                    /\ relaunches' = relaunches + 1
                    /\ stats' = [total_found |-> 1, retry_initiated |-> 1, retry_failed |-> 0]
               ELSE /\ UNCHANGED << rtask, relaunches >>
                    /\ stats' = [total_found |-> 1, retry_initiated |-> 0, retry_failed |-> 1]
       ELSE /\ stats' = NoStats
            /\ UNCHANGED << transaction_data, rtask, relaunches >>
    /\ backend' = backend
    /\ UNCHANGED << engineVars, sysVars, storeVars, classifierVars, extraVars >>

\* The relaunched background task: update_status(run_id, RUNNING).
RetryTaskStart ==
    /\ rtask = "start"
    /\ transaction_data' = [transaction_data EXCEPT !.status = "running"]
    /\ rtask' = "engine"
    /\ UNCHANGED << backend, sweeps, relaunches, stats >>
    /\ UNCHANGED << engineVars, sysVars, storeVars, classifierVars, extraVars >>

\* The relaunched task ends: update_status(run_id, status of the result,
\* {workflow_result}).
RetryTaskEnd ==
    /\ rtask = "engine"
    /\ \E outcome \in {"completed", "failed"} :
         transaction_data' = RunUpdateStatus(backend, transaction_data, outcome, TRUE, 0)
    /\ rtask' = "none"
    /\ UNCHANGED << backend, sweeps, relaunches, stats >>
    /\ UNCHANGED << engineVars, sysVars, storeVars, classifierVars, extraVars >>

NextRetry ==
    \/ Sweep
    \/ RetryTaskStart
    \/ RetryTaskEnd

\* ------------------------------------------------------ the autoscaler
MaxNodesBound == 2
MaxRuns == 3
MaxTime == 3
IdleTimeout == 2

\* SeleniumScaler(sessions_per_node=2) as constructed at startup.
sessions_per_node == 2

\* What the docker-compose command does: exit code 0, another exit code, or
\* no exit within its 60 s timeout.
ControlPlaneOutcomes == {"ok", "nonzero", "timeout"}

Min2(a, b) == IF a < b THEN a ELSE b
Max2(a, b) == IF a > b THEN a ELSE b

\* _wait_for_nodes_ready: True when, within the timeout, the hub reported at
\* least expected_nodes nodes whose availability is not DOWN; reported is the
\* largest such count the hub gave during the wait.
WaitForNodesReady(reported, expected_nodes) == reported >= expected_nodes

\* scale_up with the target not capped at max_nodes.
ScaleUpUncapped(nodes, count, docker, reported) ==
    LET target == nodes + count
    IN  IF target <= nodes
        THEN [nodes |-> nodes, ret |-> TRUE, issued |-> FALSE, ready |-> FALSE]
        ELSE IF docker = "ok"
        THEN [nodes |-> target, ret |-> TRUE, issued |-> TRUE,
              ready |-> WaitForNodesReady(reported, target)]
        ELSE [nodes |-> nodes, ret |-> FALSE, issued |-> TRUE, ready |-> FALSE]

\* scale_up: no command when the capped target is not above current_nodes;
\* on exit code 0 current_nodes becomes the target, the readiness wait is
\* made and its return value dropped, and True is returned; otherwise False.
ScaleUp(nodes, count, docker, reported) ==
    LET target == Min2(nodes + count, max_nodes)
    IN  IF target <= nodes
        THEN [nodes |-> nodes, ret |-> TRUE, issued |-> FALSE, ready |-> FALSE]
        ELSE IF docker = "ok"
        THEN [nodes |-> target, ret |-> TRUE, issued |-> TRUE,
              ready |-> WaitForNodesReady(reported, target)]
        ELSE [nodes |-> nodes, ret |-> FALSE, issued |-> TRUE, ready |-> FALSE]

\* scale_down: no command when the floored target is not below
\* current_nodes; on exit code 0 current_nodes becomes the target.
ScaleDown(nodes, count, docker) ==
    LET target == Max2(nodes - count, min_nodes)
    IN  IF target >= nodes
        THEN [nodes |-> nodes, ret |-> TRUE]
        ELSE IF docker = "ok"
        THEN [nodes |-> target, ret |-> TRUE]
        ELSE [nodes |-> nodes, ret |-> FALSE]

\* ensure_capacity: the nodes needed, rounded up and capped, and scale_up by
\* the difference when that is more than current_nodes.
EnsureCapacity(nodes, sessions_needed, docker, reported) ==
    LET nodes_needed ==
            Min2((sessions_needed + sessions_per_node - 1) \div sessions_per_node,
                 max_nodes)
    IN  IF nodes_needed > nodes
        THEN ScaleUp(nodes, nodes_needed - nodes, docker, reported)
        ELSE [nodes |-> nodes, ret |-> TRUE, issued |-> FALSE, ready |-> FALSE]

NoScalerCall ==
    [op |-> "none", arg |-> 0, nodes_before |-> 0, activity_before |-> 0,
     at |-> 0, active |-> 0, docker |-> "ok", issued |-> FALSE,
     ready |-> FALSE, ret |-> TRUE]

\* SeleniumScaler and SeleniumMonitor as constructed with the defaults.
ScalerIdle ==
    /\ min_nodes = 0
    /\ max_nodes = 3
    /\ current_nodes = 0
    /\ scaler_now = 0
    /\ last_activity_time = 0
    /\ executing = 0
    /\ scall = NoScalerCall

\* The same with SELENIUM_MIN_NODES and SELENIUM_MAX_NODES from the
\* environment.
ScalerStart ==
    /\ min_nodes \in 0..1
    /\ max_nodes \in 1..MaxNodesBound
    /\ min_nodes <= max_nodes
    /\ current_nodes = 0
    /\ scaler_now = 0
    /\ last_activity_time = 0
    /\ executing = 0
    /\ scall = NoScalerCall

\* _execute_workflow_task up to run_in_executor: ensure_capacity(1), whose
\* return value is dropped, then the engine is handed to a worker thread.
RunStart ==
    /\ executing < MaxRuns
    /\ \E docker \in ControlPlaneOutcomes, reported \in 0..MaxNodesBound :
         LET e == EnsureCapacity(current_nodes, 1, docker, reported)
         IN  /\ current_nodes' = e.nodes
             /\ scall' = [op |-> "ensure_capacity", arg |-> 1,
                          nodes_before |-> current_nodes,
                          activity_before |-> last_activity_time, at |-> scaler_now,
                          active |-> 0, docker |-> docker, issued |-> e.issued,
                          ready |-> e.ready, ret |-> e.ret]
    /\ executing' = executing + 1
    /\ UNCHANGED << min_nodes, max_nodes, scaler_now, last_activity_time >>
    /\ UNCHANGED << engineVars, sysVars, storeVars, classifierVars, retryVars,
                    cancelVars, cleanupVars, correlationVars, laterVars >>

\* The engine execution on the worker thread returns.
RunEnd ==
    /\ executing > 0
    /\ executing' = executing - 1
    /\ UNCHANGED << min_nodes, max_nodes, current_nodes, scaler_now, last_activity_time,
                    scall >>
    /\ UNCHANGED << engineVars, sysVars, storeVars, classifierVars, retryVars,
                    cancelVars, cleanupVars, correlationVars, laterVars >>

\* _check_and_scale_down: with active sessions the activity time is set;
\* otherwise, idle for idle_timeout and current_nodes > 0, scale_down(1) is
\* called and the activity time is set when it returned True.
CheckAndScaleDown ==
    /\ \E active \in 0..1, docker \in ControlPlaneOutcomes :
         LET idle_time == scaler_now - last_activity_time
             d == ScaleDown(current_nodes, 1, docker)
             call == [op |-> "check", arg |-> 1, nodes_before |-> current_nodes,
                      activity_before |-> last_activity_time, at |-> scaler_now,
                      active |-> active, docker |-> docker, issued |-> FALSE,
                      ready |-> FALSE, ret |-> TRUE]
         IN  IF active > 0
             THEN /\ last_activity_time' = scaler_now
                  /\ current_nodes' = current_nodes
                  /\ scall' = call
             ELSE IF idle_time >= IdleTimeout /\ current_nodes > 0
             THEN /\ current_nodes' = d.nodes
                  /\ last_activity_time' = IF d.ret THEN scaler_now ELSE last_activity_time
                  /\ scall' = [call EXCEPT !.ret = d.ret,
                                          !.issued = d.nodes # current_nodes
                                                     \/ ~d.ret]
             ELSE /\ UNCHANGED << current_nodes, last_activity_time >>
                  /\ scall' = call
    /\ UNCHANGED << min_nodes, max_nodes, scaler_now, executing >>
    /\ UNCHANGED << engineVars, sysVars, storeVars, classifierVars, retryVars,
                    cancelVars, cleanupVars, correlationVars, laterVars >>

\* Arguments a caller can pass: negative, zero, and more than the limits.
Counts == (0 - 1)..(MaxNodesBound + 1)
SessionCounts == (0 - 2)..(sessions_per_node * MaxNodesBound + 1)

\* scale_up(count) called on its own.
ScaleUpCall ==
    /\ \E count \in Counts, docker \in ControlPlaneOutcomes,
          reported \in 0..MaxNodesBound :
         LET u == ScaleUp(current_nodes, count, docker, reported)
         IN  /\ current_nodes' = u.nodes
             /\ scall' = [op |-> "scale_up", arg |-> count,
                          nodes_before |-> current_nodes,
                          activity_before |-> last_activity_time, at |-> scaler_now,
                          active |-> 0, docker |-> docker, issued |-> u.issued,
                          ready |-> u.ready, ret |-> u.ret]
    /\ UNCHANGED << min_nodes, max_nodes, scaler_now, last_activity_time, executing >>
    /\ UNCHANGED << engineVars, sysVars, storeVars, classifierVars, retryVars,
                    cancelVars, cleanupVars, correlationVars, laterVars >>

\* scale_down(count) called on its own.
ScaleDownCall ==
    /\ \E count \in Counts, docker \in ControlPlaneOutcomes :
         LET d == ScaleDown(current_nodes, count, docker)
         IN  /\ current_nodes' = d.nodes
             /\ scall' = [op |-> "scale_down", arg |-> count,
                          nodes_before |-> current_nodes,
                          activity_before |-> last_activity_time, at |-> scaler_now,
                          active |-> 0, docker |-> docker,
                          issued |-> d.nodes # current_nodes \/ ~d.ret,
                          ready |-> FALSE, ret |-> d.ret]
    /\ UNCHANGED << min_nodes, max_nodes, scaler_now, last_activity_time, executing >>
    /\ UNCHANGED << engineVars, sysVars, storeVars, classifierVars, retryVars,
                    cancelVars, cleanupVars, correlationVars, laterVars >>

\* ensure_capacity(sessions_needed) called on its own.
EnsureCapacityCall ==
    /\ \E sessions_needed \in SessionCounts, docker \in ControlPlaneOutcomes,
          reported \in 0..MaxNodesBound :
         LET e == EnsureCapacity(current_nodes, sessions_needed, docker, reported)
         IN  /\ current_nodes' = e.nodes
             /\ scall' = [op |-> "ensure_capacity", arg |-> sessions_needed,
                          nodes_before |-> current_nodes,
                          activity_before |-> last_activity_time, at |-> scaler_now,
                          active |-> 0, docker |-> docker, issued |-> e.issued,
                          ready |-> e.ready, ret |-> e.ret]
    /\ UNCHANGED << min_nodes, max_nodes, scaler_now, last_activity_time, executing >>
    /\ UNCHANGED << engineVars, sysVars, storeVars, classifierVars, retryVars,
                    cancelVars, cleanupVars, correlationVars, laterVars >>

\* A check interval passes.
ScalerTick ==
    /\ scaler_now < MaxTime
    /\ scaler_now' = scaler_now + 1
    /\ UNCHANGED << min_nodes, max_nodes, current_nodes, last_activity_time,
                    executing, scall >>
    /\ UNCHANGED << engineVars, sysVars, storeVars, classifierVars, retryVars,
                    cancelVars, cleanupVars, correlationVars, laterVars >>

NextScaler ==
    \/ RunStart
    \/ RunEnd
    \/ CheckAndScaleDown
    \/ ScalerTick

\* The three public operations of the scaler, called in any order.
NextScalerCalls ==
    \/ ScaleUpCall
    \/ ScaleDownCall
    \/ EnsureCapacityCall

\* ------------------------------------------------- the correlation id
\* EXCHANGE_ID_DEFAULT, the id the middleware set for the request being
\* handled, and the exchange id of the Run.
ExchangeIdDefault == "-"
ExchangeIds == {ExchangeIdDefault, "request", "run"}

\* The contexts a ContextVar has a value in: the endpoint handler, the
\* orchestrator's background task, the worker thread, the monitor task.
Contexts == {"handler", "task", "thread", "monitor"}

\* The scopes that set the correlation id on a Run's behalf, and the context
\* each runs in.
Scopes == {"retry", "task", "engine", "monitor"}
ContextOf(s) ==
    CASE s = "retry" -> "handler"
      [] s = "task" -> "task"
      [] s = "engine" -> "thread"
      [] s = "monitor" -> "monitor"

\* set_exchange_id: the value, or the default for None or an empty string.
SetExchangeId(v) == v

\* clear_exchange_id.
ClearExchangeId == ExchangeIdDefault

\* What the finally block of a scope leaves in the context variable:
\* _execute_workflow_task and execute_workflow set the value they saved on
\* entry; retry_transaction and _monitor_workflow_completion clear.
ScopeExitValue(s, entry) ==
    IF s \in {"task", "engine"} THEN SetExchangeId(entry) ELSE ClearExchangeId

NoScope ==
    [pc |-> "none", entry |-> ExchangeIdDefault, at_write |-> ExchangeIdDefault,
     exit |-> ExchangeIdDefault, how |-> "none"]

\* A request is being handled: the middleware has set the request's id in
\* the handler's context; no scope has been entered.
CorrelationIdle ==
    /\ exchange_id_var = [c \in Contexts |->
                            IF c = "handler" THEN "request" ELSE ExchangeIdDefault]
    /\ scope = [s \in Scopes |-> NoScope]

\* asyncio.create_task: the new task runs in a copy of the creator's context.
SpawnScope(s) ==
    /\ scope[s].pc = "none"
    /\ exchange_id_var' = [exchange_id_var EXCEPT ![ContextOf(s)] =
                             exchange_id_var["handler"]]
    /\ scope' = [scope EXCEPT ![s].pc = "spawned"]

\* The first statements of a scope: the current value is what the scope was
\* entered with, and set_exchange_id(exchange_id).
EnterScope(s) ==
    /\ scope' = [scope EXCEPT ![s].pc = "open",
                              ![s].entry = exchange_id_var[ContextOf(s)]]
    /\ exchange_id_var' = [exchange_id_var EXCEPT ![ContextOf(s)] =
                             SetExchangeId("run")]

\* The scope's first update_status call.
WriteInScope(s) ==
    /\ scope[s].pc = "open"
    /\ scope' = [scope EXCEPT ![s].pc = "wrote",
                              ![s].at_write = exchange_id_var[ContextOf(s)]]
    /\ UNCHANGED exchange_id_var

\* The scope's finally block, reached by return or by an error.
ExitScope(s) ==
    /\ scope[s].pc \in {"open", "wrote"}
    /\ \E how \in {"normal", "error"} :
         LET v == ScopeExitValue(s, scope[s].entry)
         IN  /\ exchange_id_var' = [exchange_id_var EXCEPT ![ContextOf(s)] = v]
             /\ scope' = [scope EXCEPT ![s].pc = "closed", ![s].exit = v,
                                       ![s].how = how]

OtherThanCorrelation ==
    << engineVars, sysVars, storeVars, classifierVars, retryVars, cancelVars,
       cleanupVars, scalerVars, laterVars >>

\* retry_transaction, called by the sweep endpoint in the handler's context.
RetryTransactionEnter ==
    /\ scope["retry"].pc = "none"
    /\ scope["task"].pc = "none"
    /\ EnterScope("retry")
    /\ UNCHANGED OtherThanCorrelation

RetryTransactionWrite ==
    /\ WriteInScope("retry")
    /\ UNCHANGED OtherThanCorrelation

RetryTransactionExit ==
    /\ ExitScope("retry")
    /\ UNCHANGED OtherThanCorrelation

\* execute_workflow_async, called by intake or inside retry_transaction after
\* its status write.
ExecuteWorkflowAsync ==
    /\ scope["retry"].pc \in {"none", "wrote"}
    /\ SpawnScope("task")
    /\ UNCHANGED OtherThanCorrelation

\* _execute_workflow_task.
WorkflowTaskEnter ==
    /\ scope["task"].pc = "spawned"
    /\ EnterScope("task")
    /\ UNCHANGED OtherThanCorrelation

WorkflowTaskWrite ==
    /\ WriteInScope("task")
    /\ UNCHANGED OtherThanCorrelation

WorkflowTaskExit ==
    /\ scope["engine"].pc # "open"
    /\ ExitScope("task")
    /\ UNCHANGED OtherThanCorrelation

\* execute_workflow on the worker thread, whose context run_in_executor does
\* not copy from the task.
EngineScopeEnter ==
    /\ scope["task"].pc = "wrote"
    /\ scope["engine"].pc = "none"
    /\ EnterScope("engine")
    /\ UNCHANGED OtherThanCorrelation

EngineScopeExit ==
    /\ ExitScope("engine")
    /\ UNCHANGED OtherThanCorrelation

\* _monitor_workflow_completion, started by intake with create_task.
MonitorSpawn ==
    /\ scope["retry"].pc = "none"
    /\ SpawnScope("monitor")
    /\ UNCHANGED OtherThanCorrelation

MonitorScopeEnter ==
    /\ scope["monitor"].pc = "spawned"
    /\ EnterScope("monitor")
    /\ UNCHANGED OtherThanCorrelation

MonitorScopeWrite ==
    /\ WriteInScope("monitor")
    /\ UNCHANGED OtherThanCorrelation

MonitorScopeExit ==
    /\ ExitScope("monitor")
    /\ UNCHANGED OtherThanCorrelation

NextCorrelation ==
    \/ RetryTransactionEnter
    \/ RetryTransactionWrite
    \/ RetryTransactionExit
    \/ ExecuteWorkflowAsync
    \/ WorkflowTaskEnter
    \/ WorkflowTaskWrite
    \/ WorkflowTaskExit
    \/ EngineScopeEnter
    \/ EngineScopeExit
    \/ MonitorSpawn
    \/ MonitorScopeEnter
    \/ MonitorScopeWrite
    \/ MonitorScopeExit

\* ------------------------------------------------ the application monitor
\* ------------------------------------------- intake with a failing store
MaxIntakes == 2
NIntakeEntries == 2
IntakeEntries == 1..NIntakeEntries
IntakeEntrySeqs == UNION {[1..n -> IntakeEntries] : n \in 1..NIntakeEntries}

NoIntake ==
    [kind |-> "none", entries |-> << >>, new_entries |-> << >>, pc |-> "idle",
     i |-> 0, code |-> "none"]

OrphanIdle ==
    /\ anchors = {}
    /\ intake = NoIntake
    /\ ever_launched = {}
    /\ intakes = 0

OtherThanOrphan ==
    << engineVars, sysVars, storeVars, classifierVars, retryVars, cancelVars,
       cleanupVars, scalerVars, correlationVars, monitorVars, hashVars >>

\* ------------------------------------------------ the W-A entry fingerprint
\* Values of a CCMAEntry: periods MM/YYYY, dates DD/MM/YYYY, a payment method,
\* and the optional taxpayer_type and tax_type, free strings or None.
PeriodValues == {"01/2024", "02/2024"}
OptionalValues == {"None", "IVA", "021"}

CcmaEntries ==
    [period_from : PeriodValues, period_to : {"12/2024"},
     calculation_date : {"19/09/2025"}, taxpayer_type : OptionalValues,
     tax_type : OptionalValues, form_payment : {"qr"},
     expiration_date : {"31/12/2025"}]

\* The truth value of an optional field in `if entry.field:`.
Truthy(v) == v # "None" /\ v # ""

\* hash_data of generate_ccma_entry_hash, as the sequence of the parts that
\* "|" separates: the three required fields, then each of taxpayer_type,
\* tax_type, form_payment and expiration_date that is truthy.
HashData(entry) ==
    << entry.period_from, entry.period_to, entry.calculation_date >>
        \o (IF Truthy(entry.taxpayer_type) THEN << entry.taxpayer_type >> ELSE << >>)
        \o (IF Truthy(entry.tax_type) THEN << entry.tax_type >> ELSE << >>)
        \o (IF Truthy(entry.form_payment) THEN << entry.form_payment >> ELSE << >>)
        \o (IF Truthy(entry.expiration_date) THEN << entry.expiration_date >> ELSE << >>)

\* hashlib.sha256(...).hexdigest(): different strings, different digests.
Sha256(data) == << "sha256", data >>

GenerateCcmaEntryHash(entry) == Sha256(HashData(entry))

\* The fields the fingerprint is meant to tell apart.
CriticalFields(entry) ==
    << entry.period_from, entry.period_to, entry.calculation_date,
       entry.taxpayer_type, entry.tax_type, entry.form_payment,
       entry.expiration_date >>

HashIdle ==
    /\ entry_pair = [k \in 1..2 |-> CHOOSE e \in CcmaEntries : TRUE]
    /\ entry_hash = [k \in 1..2 |-> "none"]

\* Any two valid entries.
HashStart ==
    /\ entry_pair \in [1..2 -> CcmaEntries]
    /\ entry_hash = [k \in 1..2 |-> "none"]

\* generate_ccma_entry_hash(entry) on the k-th entry.
HashEntry(k) ==
    /\ entry_hash[k] = "none"
    /\ entry_hash' = [entry_hash EXCEPT ![k] = GenerateCcmaEntryHash(entry_pair[k])]
    /\ UNCHANGED entry_pair
    /\ UNCHANGED << engineVars, sysVars, storeVars, classifierVars, retryVars,
                    cancelVars, cleanupVars, scalerVars, correlationVars,
                    monitorVars, orphanVars >>

NextHash == \E k \in 1..2 : HashEntry(k)

\* ------------------------------------------------- the completion monitor
NMonRuns == 2
MonRuns == 1..NMonRuns
Backends == {"redis", "memory"}

\* WorkflowStatus.X.value: the lower-case string of the member.
WorkflowStatusValue(member) ==
    CASE member = "COMPLETED" -> "completed"
      [] member = "FAILED" -> "failed"
      [] member = "RUNNING" -> "running"

\* What a stash put into the request_data of the dict get_transaction
\* returned leaves in the store: in memory the dict is the stored one; on
\* Redis it is a copy parsed from the hash, and the stash is lost.
Stash(b, value) == IF b = "memory" THEN value ELSE "none"

NoMon ==
    [status |-> "running", stash |-> "none", engine |-> "none", pc |-> "poll",
     wrote |-> "none", outcome |-> "none"]

\* A Run whose record is stored under its id with status RUNNING, or is not
\* stored; intake has spawned its monitor.
MonitorStart ==
    /\ mon_backend \in Backends
    /\ mon \in [MonRuns -> {NoMon, [NoMon EXCEPT !.status = "absent"]}]

MonitorIdle ==
    /\ mon_backend = "redis"
    /\ mon = [r \in MonRuns |-> NoMon]

LaterIdle == MonitorIdle /\ OrphanIdle /\ HashIdle

OtherThanMonitor ==
    << engineVars, sysVars, storeVars, classifierVars, retryVars, cancelVars,
       cleanupVars, scalerVars, correlationVars, orphanVars, hashVars >>

\* _execute_workflow_task after the engine returned: when the record is
\* found the result is stashed in its request_data and update_status writes
\* the result's status.
EngineResultWrite(r) ==
    /\ mon[r].engine = "none"
    /\ mon[r].pc = "poll"
    /\ \E member \in {"COMPLETED", "FAILED"} :
         mon' = [mon EXCEPT
                   ![r].engine = member,
                   ![r].stash = IF mon[r].status = "absent" THEN "none"
                                ELSE Stash(mon_backend, member),
                   ![r].status = IF mon[r].status = "absent" THEN "absent"
                                 ELSE WorkflowStatusValue(member)]
    /\ UNCHANGED mon_backend
    /\ UNCHANGED OtherThanMonitor

\* _update_transaction_with_error: the message is stashed as _workflow_error
\* and FAILED is written, when the record is found.
EngineErrorWrite(r) ==
    /\ mon[r].engine = "none"
    /\ mon[r].pc = "poll"
    /\ mon' = [mon EXCEPT
                 ![r].engine = "error",
                 ![r].stash = IF mon[r].status = "absent" THEN "none"
                              ELSE Stash(mon_backend, "error"),
                 ![r].status = IF mon[r].status = "absent" THEN "absent"
                               ELSE WorkflowStatusValue("FAILED")]
    /\ UNCHANGED mon_backend
    /\ UNCHANGED OtherThanMonitor

\* The monitor's completion branch: with _workflow_result stashed it compares
\* workflow_result.status.value with "COMPLETED" and writes COMPLETED and
\* records success when equal, otherwise writes FAILED and records failed;
\* with _workflow_error stashed it writes FAILED; with neither, nothing.
MonitorWrite(stash) ==
    IF stash = "none" THEN [wrote |-> "none", outcome |-> "none"]
    ELSE IF stash = "error" THEN [wrote |-> "failed", outcome |-> "none"]
    ELSE IF WorkflowStatusValue(stash) = "COMPLETED"
    THEN [wrote |-> "completed", outcome |-> "success"]
    ELSE [wrote |-> "failed", outcome |-> "failed"]

\* _monitor_workflow_completion: the poll loop ends when the record is absent
\* or its status is terminal; an absent record ends the task, otherwise the
\* completion branch runs.
MonitorCompletion(r) ==
    /\ mon[r].pc = "poll"
    /\ mon[r].status = "absent" \/ IsTerminal(mon[r].status)
    /\ LET w == IF mon[r].status = "absent"
                THEN [wrote |-> "none", outcome |-> "none"]
                ELSE MonitorWrite(mon[r].stash)
       IN  mon' = [mon EXCEPT
                     ![r].pc = "done",
                     ![r].wrote = w.wrote,
                     ![r].outcome = w.outcome,
                     ![r].status = IF w.wrote = "none" THEN @ ELSE w.wrote]
    /\ UNCHANGED mon_backend
    /\ UNCHANGED OtherThanMonitor

NextMonitor ==
    \/ \E r \in MonRuns : EngineResultWrite(r)
    \/ \E r \in MonRuns : EngineErrorWrite(r)
    \/ \E r \in MonRuns : MonitorCompletion(r)

\* The background task is cancelled while it awaits the engine: neither the
\* result write nor the error write is made, only the finally block runs.
EngineCancelled(r) ==
    /\ mon[r].engine = "none"
    /\ mon[r].pc = "poll"
    /\ mon' = [mon EXCEPT ![r].engine = "cancelled"]
    /\ UNCHANGED mon_backend
    /\ UNCHANGED OtherThanMonitor

\* The TTL of the Redis key of the record elapses; the in-memory dict keeps
\* its records.
RecordExpires(r) ==
    /\ mon_backend = "redis"
    /\ mon[r].status # "absent"
    /\ mon' = [mon EXCEPT ![r].status = "absent", ![r].stash = "none"]
    /\ UNCHANGED mon_backend
    /\ UNCHANGED OtherThanMonitor

\* The monitor with every way the background task can end.
NextMonitorEnds ==
    \/ NextMonitor
    \/ \E r \in MonRuns : EngineCancelled(r)
    \/ \E r \in MonRuns : RecordExpires(r)

\* The event loop runs a task that can run: the monitor wakes from its sleep
\* and polls, the background task ends in one of its ways, and time passes.
MonitorFairness ==
    \A r \in MonRuns :
        /\ WF_vars(MonitorCompletion(r))
        /\ WF_vars(EngineResultWrite(r) \/ EngineErrorWrite(r) \/ EngineCancelled(r))
        /\ WF_vars(RecordExpires(r))

\* No background task has been cancelled.
CancelIdle == cancelled = {}

\* cleanup has not run.
CleanupIdle == cleanup_error = FALSE

ExtraIdle ==
    CancelIdle /\ CleanupIdle /\ ScalerIdle /\ CorrelationIdle /\ LaterIdle

UnitsIdle == StoreIdle /\ ClassifierIdle /\ RetryIdle /\ ExtraIdle

InitEngine ==
    /\ wf \in Workflows
    /\ EngineIdle
    /\ SystemIdle
    /\ UnitsIdle

NextEngine ==
    \/ EngineBegin
    \/ StepLoop
    \/ StepAttempt
    \/ Finalize
    \/ Publish
    \/ Cleanup

SpecEngine == InitEngine /\ [][NextEngine]_vars

\* ----------------------------------------------------- the transaction store
\* TransactionService.check_duplicate on the Redis backend: one lookup of the
\* fingerprint in transaction_hashes.
CheckDuplicate(h) == hash_index[h]

\* TransactionService.update_status: False and no write when the record is
\* absent; otherwise the status is overwritten, whatever it was.
UpdateStatus(rs, key, status) ==
    IF rs[key] = NoRecord THEN rs ELSE [rs EXCEPT ![key].status = status]

\* The record written by create_transaction.
NewRecord(h, run) ==
    [status |-> "created", transaction_hash |-> h, workflow_exchange_id |-> run,
     workflow_result |-> "none", workflow_error |-> FALSE]

\* update_status with results = {"workflow_result": result.__dict__} on the
\* Redis backend: the stored results were parsed by get_hash, json.loads of
\* them raises TypeError, so the new map replaces the old one.
UpdateStatusWithResult(rs, key, status) ==
    IF rs[key] = NoRecord THEN rs
    ELSE [rs EXCEPT ![key].status = status,
                    ![key].workflow_result = status,
                    ![key].workflow_error = FALSE]

\* ------------------------------------------------------------------ intake
\* new_entries: zip(entries, processed_entries) pairs the request's entries
\* with the statuses of the new ones by position and stops at the shorter
\* list; every status in processed_entries is "new".
ZipNew(entries, pr) ==
    LET n == IF Len(entries) < Len(pr) THEN Len(entries) ELSE Len(pr)
    IN  [p \in 1..n |-> entries[p]]

\* How many background tasks the request starts: CCMA one per new entry, DDJJ
\* one for all of them.
NTasks(r) == IF req[r].kind = "ccma_workflow" THEN Len(new_entries[r]) ELSE 1

\* execute_ccma_workflow / execute_ddjj_workflow up to the entry loop: the
\* workflow-level duplicate check; a hit raises DuplicateTransactionError.
\* Q is the set the request is drawn from.
ExecuteWorkflow(r, Q) ==
    /\ ipc[r] = "idle"
    /\ \E q \in Q :
         /\ req' = [req EXCEPT ![r] = q]
         /\ LET existing == CheckDuplicate(WorkflowHash(q.kind, q.entries))
            IN  IF existing # NoKey
                THEN /\ response' = [response EXCEPT
                                       ![r] = [code |-> "conflict", existing |-> existing,
                                               exchange_id |-> NoKey, counts |-> NoCounts]]
                     /\ ipc' = [ipc EXCEPT ![r] = "done"]
                ELSE /\ response' = response
                     /\ ipc' = [ipc EXCEPT ![r] = "entries"]
    /\ UNCHANGED << ii, processed, duplicates, new_entries, records, hash_index,
                    tpc, tresult, tlog, workflows, running_workflows, mpc,
                    published, created, launched >>
    /\ UNCHANGED << engineVars, unitVars >>

CheckWorkflow(r) == ExecuteWorkflow(r, Requests)

\* _get_existing_workflow_uuid answering with the current run id for every
\* duplicate.
GetExistingWorkflowUuidCurrent(rs, key, current) ==
    IF key = NoKey THEN NoKey ELSE current

\* _get_existing_workflow_uuid: nothing for a new entry; for a duplicate the
\* workflow_exchange_id stored in the record the index points to, and the
\* current run id when that record is missing.
GetExistingWorkflowUuid(rs, key, current) ==
    IF key = NoKey THEN NoKey
    ELSE IF rs[key] # NoRecord /\ rs[key].workflow_exchange_id # NoKey
    THEN rs[key].workflow_exchange_id
    ELSE current

\* One iteration of the entry loop: check_duplicate on the entry's hash and
\* the entry's status. After the last entry, a request without new entries
\* returns the duplicates-only response; otherwise new_entries is computed.
CheckEntry(r) ==
    /\ ipc[r] = "entries"
    /\ LET e == req[r].entries[ii[r]]
           existing == CheckDuplicate(EntryHash(req[r].kind, e))
           status == [entry |-> e,
                      existing_exchange_id |->
                          GetExistingWorkflowUuid(records, existing, RunId(r))]
           pr == IF existing = NoKey THEN Append(processed[r], e) ELSE processed[r]
           du == IF existing = NoKey THEN duplicates[r]
                 ELSE Append(duplicates[r], status)
       IN  /\ processed' = [processed EXCEPT ![r] = pr]
           /\ duplicates' = [duplicates EXCEPT ![r] = du]
           /\ IF ii[r] < Len(req[r].entries)
              THEN /\ ii' = [ii EXCEPT ![r] = @ + 1]
                   /\ UNCHANGED << ipc, response, new_entries >>
              ELSE IF pr = << >>
              THEN /\ response' = [response EXCEPT
                                     ![r] = [code |-> "duplicates_only", existing |-> NoKey,
                                             exchange_id |-> NoKey,
                                             counts |-> [total_entries |-> Len(req[r].entries),
                                                         processed_count |-> 0,
                                                         duplicate_count |-> Len(du)]]]
                   /\ ipc' = [ipc EXCEPT ![r] = "done"]
                   /\ UNCHANGED << ii, new_entries >>
              ELSE /\ new_entries' = [new_entries EXCEPT
                                        ![r] = ZipNew(req[r].entries, pr)]
                   /\ ii' = [ii EXCEPT ![r] = 1]
                   /\ ipc' = [ipc EXCEPT ![r] = "create"]
                   /\ response' = response
    /\ UNCHANGED << req, records, hash_index, tpc, tresult, tlog, workflows,
                    running_workflows, mpc, published, created, launched >>
    /\ UNCHANGED << engineVars, unitVars >>

\* One iteration of the creation loop: create_transaction keyed by the entry
\* hash; the pipeline writes the record and the index field together.
CreateEntry(r) ==
    /\ ipc[r] = "create"
    /\ LET h == EntryHash(req[r].kind, new_entries[r][ii[r]])
       IN  /\ records' = [records EXCEPT ![h] = NewRecord(h, RunId(r))]
           /\ hash_index' = [hash_index EXCEPT ![h] = h]
           /\ created' = [created EXCEPT ![h] = @ + 1]
    /\ IF ii[r] < Len(new_entries[r])
       THEN /\ ii' = [ii EXCEPT ![r] = @ + 1]
            /\ ipc' = ipc
       ELSE /\ ii' = [ii EXCEPT ![r] = 1]
            /\ ipc' = [ipc EXCEPT ![r] = "launch"]
    /\ UNCHANGED << req, processed, duplicates, new_entries, response, tpc,
                    tresult, tlog, workflows, running_workflows, mpc, published,
                    launched >>
    /\ UNCHANGED << engineVars, unitVars >>

\* The launch loop: execute_workflow_async creates one background task per
\* call and records it in _running_workflows under the run id; it returns
\* without suspending, so the loop runs in one piece.
Launch(r) ==
    /\ ipc[r] = "launch"
    /\ tpc' = [t \in TaskIds |->
                 IF t[1] = r /\ t[2] <= NTasks(r) THEN "start" ELSE tpc[t]]
    /\ running_workflows' = [running_workflows EXCEPT ![r] = << r, NTasks(r) >>]
    /\ launched' = [h \in EntryKeys |->
                      launched[h] + Cardinality({p \in 1..Len(new_entries[r]) :
                                        EntryHash(req[r].kind, new_entries[r][p]) = h})]
    /\ ipc' = [ipc EXCEPT ![r] = "set_running"]
    /\ UNCHANGED << req, ii, processed, duplicates, new_entries, response,
                    records, hash_index, tresult, tlog, workflows, mpc,
                    published, created >>
    /\ UNCHANGED << engineVars, unitVars >>

\* set_workflow_status(run_id, RUNNING), the monitor task is created and the
\* response is returned.
SetRunning(r) ==
    /\ ipc[r] = "set_running"
    /\ records' = UpdateStatus(records, RunId(r), "running")
    /\ mpc' = [mpc EXCEPT ![r] = "poll"]
    /\ response' = [response EXCEPT
                       ![r] = [code |-> "ok", existing |-> NoKey, exchange_id |-> RunId(r),
                               counts |-> [total_entries |-> Len(req[r].entries),
                                           processed_count |-> Len(processed[r]),
                                           duplicate_count |-> Len(duplicates[r])]]]
    /\ ipc' = [ipc EXCEPT ![r] = "done"]
    /\ UNCHANGED << req, ii, processed, duplicates, new_entries, hash_index,
                    tpc, tresult, tlog, workflows, running_workflows, published,
                    created, launched >>
    /\ UNCHANGED << engineVars, unitVars >>

\* _monitor_workflow_completion on the Redis backend: it polls until the
\* record is absent or terminal; get_transaction returns a copy, in which
\* neither _workflow_result nor _workflow_error is found, so nothing is
\* written.
Monitor(r) ==
    /\ mpc[r] = "poll"
    /\ \/ records[RunId(r)] = NoRecord
       \/ IsTerminal(records[RunId(r)].status)
    /\ mpc' = [mpc EXCEPT ![r] = "done"]
    /\ UNCHANGED << req, ipc, ii, processed, duplicates, new_entries, response,
                    records, hash_index, tpc, tresult, tlog, workflows,
                    running_workflows, published, created, launched >>
    /\ UNCHANGED << engineVars, unitVars >>

\* ------------------------------------------------------- background tasks
TaskKind(t) == req[t[1]].kind

\* _execute_workflow_task up to the executor call: ensure_capacity, then
\* update_status(run_id, RUNNING).
TaskStart(t) ==
    /\ tpc[t] = "start"
    /\ records' = UpdateStatus(records, RunId(t[1]), "running")
    /\ tpc' = [tpc EXCEPT ![t] = "register"]
    /\ UNCHANGED << req, ipc, ii, processed, duplicates, new_entries, response,
                    hash_index, tresult, tlog, workflows, running_workflows, mpc,
                    published, created, launched >>
    /\ UNCHANGED << engineVars, unitVars >>

\* _execute_workflow_sync on the worker thread: create_workflow and
\* register_workflow, which stores the instance under its workflow_id.
ThreadRegister(t) ==
    /\ tpc[t] = "register"
    /\ workflows' = [workflows EXCEPT ![TaskKind(t)] = t]
    /\ tpc' = [tpc EXCEPT ![t] = "engine"]
    /\ UNCHANGED << req, ipc, ii, processed, duplicates, new_entries, response,
                    records, hash_index, tresult, tlog, running_workflows, mpc,
                    published, created, launched >>
    /\ UNCHANGED << engineVars, unitVars >>

\* execute_workflow on the worker thread: ValueError when the workflow_id is
\* not registered; otherwise the registered instance is run to a result and
\* the WorkflowFinishedEvent is handed to the publisher.
ThreadEngine(t) ==
    /\ tpc[t] = "engine"
    /\ IF workflows[TaskKind(t)] = NoTask
       THEN /\ tpc' = [tpc EXCEPT ![t] = "error"]
            /\ UNCHANGED << tresult, tlog, published >>
       ELSE \E outcome \in {"completed", "failed"} :
              /\ tresult' = [tresult EXCEPT ![t] = outcome]
              /\ tlog' = [tlog EXCEPT ![t] = @ \o << "steps", "publish" >>]
              /\ published' = [published EXCEPT ![t[1]] =
                                 IF outcome = "completed"
                                 THEN [@ EXCEPT !.success = @ + 1]
                                 ELSE [@ EXCEPT !.failure = @ + 1]]
              /\ tpc' = [tpc EXCEPT ![t] = "unregister"]
    /\ UNCHANGED << req, ipc, ii, processed, duplicates, new_entries, response,
                    records, hash_index, workflows, running_workflows, mpc,
                    created, launched >>
    /\ UNCHANGED << engineVars, unitVars >>

\* finally of _execute_workflow_sync: unregister_workflow deletes the entry
\* of the workflow_id.
ThreadUnregister(t) ==
    /\ tpc[t] = "unregister"
    /\ workflows' = [workflows EXCEPT ![TaskKind(t)] = NoTask]
    /\ tpc' = [tpc EXCEPT ![t] = "write"]
    /\ UNCHANGED << req, ipc, ii, processed, duplicates, new_entries, response,
                    records, hash_index, tresult, tlog, running_workflows, mpc,
                    published, created, launched >>
    /\ UNCHANGED << engineVars, unitVars >>

\* finally of _execute_workflow_task: the task reference is deleted.
ForgetTask(r) == [running_workflows EXCEPT ![r] = NoTask]

\* Back in the task: the record of the run id is read and, when present,
\* update_status writes the result's status; then the finally block.
TaskWrite(t) ==
    /\ tpc[t] = "write"
    /\ t \notin cancelled
    /\ records' = UpdateStatusWithResult(records, RunId(t[1]), tresult[t])
    /\ tlog' = [tlog EXCEPT ![t] =
                  Append(@, IF records[RunId(t[1])] = NoRecord
                            THEN "no_record" ELSE "write")]
    /\ running_workflows' = ForgetTask(t[1])
    /\ tpc' = [tpc EXCEPT ![t] = "done"]
    /\ UNCHANGED << req, ipc, ii, processed, duplicates, new_entries, response,
                    hash_index, tresult, workflows, mpc, published, created,
                    launched >>
    /\ UNCHANGED << engineVars, unitVars >>

\* The except branch of the task: _update_transaction_with_error puts the
\* message into the request_data of the dict get_transaction returned, which
\* on the Redis backend is a copy, and writes FAILED without results when the
\* record of the run id is present; then the finally block.
TaskError(t) ==
    /\ tpc[t] = "error"
    /\ t \notin cancelled
    /\ records' = UpdateStatus(records, RunId(t[1]), "failed")
    /\ tlog' = [tlog EXCEPT ![t] =
                  Append(@, IF records[RunId(t[1])] = NoRecord
                            THEN "no_record" ELSE "write")]
    /\ running_workflows' = ForgetTask(t[1])
    /\ tpc' = [tpc EXCEPT ![t] = "done"]
    /\ UNCHANGED << req, ipc, ii, processed, duplicates, new_entries, response,
                    hash_index, tresult, workflows, mpc, published, created,
                    launched >>
    /\ UNCHANGED << engineVars, unitVars >>

\* ------------------------------------------------------------- the service
Init ==
    /\ wf = CcmaWorkflow
    /\ EngineIdle
    /\ SystemIdle
    /\ UnitsIdle

Next ==
    \/ \E r \in 1..NReq : CheckWorkflow(r)
    \/ \E r \in 1..NReq : CheckEntry(r)
    \/ \E r \in 1..NReq : CreateEntry(r)
    \/ \E r \in 1..NReq : Launch(r)
    \/ \E r \in 1..NReq : SetRunning(r)
    \/ \E r \in 1..NReq : Monitor(r)
    \/ \E t \in TaskIds : TaskStart(t)
    \/ \E t \in TaskIds : ThreadRegister(t)
    \/ \E t \in TaskIds : ThreadEngine(t)
    \/ \E t \in TaskIds : ThreadUnregister(t)
    \/ \E t \in TaskIds : TaskWrite(t)
    \/ \E t \in TaskIds : TaskError(t)

Spec == Init /\ [][Next]_vars

\* ------------------------------------------- the service with Run records
\* TransactionService.create_transaction called with a run id as the key and
\* the request's workflow fingerprint as the hash. Intake never makes this
\* call: it keys every record by an entry hash, so under Spec each status
\* write addressed to a run id finds no record. SpecRun adds the call, to
\* follow the status writes of intake, the background tasks and the monitor
\* on a Run that is stored.
CreateTransaction(r) ==
    /\ ipc[r] = "entries"
    /\ records[RunId(r)] = NoRecord
    /\ LET h == WorkflowHash(req[r].kind, req[r].entries)
       IN  /\ records' = [records EXCEPT ![RunId(r)] = NewRecord(h, RunId(r))]
           /\ hash_index' = [hash_index EXCEPT ![h] = RunId(r)]
    /\ UNCHANGED << req, ipc, ii, processed, duplicates, new_entries, response,
                    tpc, tresult, tlog, workflows, running_workflows, mpc,
                    published, created, launched >>
    /\ UNCHANGED << engineVars, unitVars >>

NextRun ==
    \/ Next
    \/ \E r \in 1..NReq : CreateTransaction(r)

SpecRun == Init /\ [][NextRun]_vars

\* ------------------------------------------- the service with cancellation
\* The background task is cancelled while it awaits run_in_executor.
\* asyncio.CancelledError derives from BaseException, so the task's
\* `except Exception` does not run: no status is written, and only the
\* finally block acts (the task reference is deleted). The worker thread is
\* not interrupted and goes on to the end of _execute_workflow_sync.
TaskCancel(t) ==
    /\ tpc[t] \in {"register", "engine", "unregister"}
    /\ t \notin cancelled
    /\ cancelled' = cancelled \cup {t}
    /\ running_workflows' = ForgetTask(t[1])
    /\ tlog' = [tlog EXCEPT ![t] = Append(@, "cancelled")]
    /\ UNCHANGED << req, ipc, ii, processed, duplicates, new_entries, response,
                    records, hash_index, tpc, tresult, workflows, mpc,
                    published, created, launched >>
    /\ UNCHANGED << engineVars, storeVars, classifierVars, retryVars, cleanupVars,
                    scalerVars, correlationVars, laterVars >>

\* The worker thread of a cancelled task returns: the task that awaited its
\* result has ended, so neither the result write nor the error write is made.
ThreadReturnsToCancelled(t) ==
    /\ tpc[t] \in {"write", "error"}
    /\ t \in cancelled
    /\ tpc' = [tpc EXCEPT ![t] = "done"]
    /\ UNCHANGED << req, ipc, ii, processed, duplicates, new_entries, response,
                    records, hash_index, tresult, tlog, workflows,
                    running_workflows, mpc, published, created, launched >>
    /\ UNCHANGED << engineVars, unitVars >>

NextCancel ==
    \/ NextRun
    \/ \E t \in TaskIds : TaskCancel(t)
    \/ \E t \in TaskIds : ThreadReturnsToCancelled(t)

SpecCancel == Init /\ [][NextCancel]_vars

\* ------------------------------------ the service, one request at a time
\* The background tasks a request has started.
TasksOf(r) == {t \in TaskIds : t[1] = r /\ tpc[t] # "none"}

\* Nothing of request r is in progress: intake, background tasks, monitor.
Quiet(r) ==
    /\ ipc[r] \in {"idle", "done"}
    /\ \A t \in TasksOf(r) : tpc[t] = "done"
    /\ mpc[r] \in {"none", "done"}

\* A client that sends its next request after the previous one was served to
\* the end; a request carries up to MaxBatchEntries entries.
SerialRequest(r) ==
    /\ \A s \in 1..NReq : Quiet(s)
    /\ ExecuteWorkflow(r, BatchRequests)

NextBatch ==
    \/ \E r \in 1..NReq : SerialRequest(r)
    \/ \E r \in 1..NReq : CheckEntry(r)
    \/ \E r \in 1..NReq : CreateEntry(r)
    \/ \E r \in 1..NReq : Launch(r)
    \/ \E r \in 1..NReq : SetRunning(r)
    \/ \E r \in 1..NReq : Monitor(r)
    \/ \E t \in TaskIds : TaskStart(t)
    \/ \E t \in TaskIds : ThreadRegister(t)
    \/ \E t \in TaskIds : ThreadEngine(t)
    \/ \E t \in TaskIds : ThreadUnregister(t)
    \/ \E t \in TaskIds : TaskWrite(t)
    \/ \E t \in TaskIds : TaskError(t)

SpecBatch == Init /\ [][NextBatch]_vars

\* TransactionService alone: the same calls made on a Redis-backed and on an
\* in-memory instance, with time passing in between.
SpecStore == Init /\ [][NextStore]_vars

\* The error classifier alone.
SpecClassifier == Init /\ [][NextClassifier]_vars

\* The retry sweeper on a store that holds one FAILED Run.
InitRetry ==
    /\ wf = CcmaWorkflow
    /\ EngineIdle
    /\ SystemIdle
    /\ StoreIdle
    /\ ClassifierIdle
    /\ RetryStart
    /\ ExtraIdle

SpecRetry == InitRetry /\ [][NextRetry]_vars

\* ------------------------------------------------ the autoscaler on its own
InitScaler ==
    /\ wf = CcmaWorkflow
    /\ EngineIdle
    /\ SystemIdle
    /\ StoreIdle
    /\ ClassifierIdle
    /\ RetryIdle
    /\ CancelIdle
    /\ CleanupIdle
    /\ ScalerStart
    /\ CorrelationIdle
    /\ LaterIdle

SpecScaler == InitScaler /\ [][NextScaler]_vars

SpecScalerCalls == InitScaler /\ [][NextScalerCalls]_vars

\* --------------------------------------------- the correlation id on its own
SpecCorrelation == Init /\ [][NextCorrelation]_vars

\* ------------------------------------------- the application monitor alone
\* ------------------------------------------- intake with a failing store
\* execute_ccma_workflow / execute_ddjj_workflow through the entry loop: an
\* entry whose fingerprint is in the index is a duplicate, the others are
\* new; without new entries the duplicates-only response is returned,
\* otherwise new_entries is computed. (The workflow-level check finds
\* nothing: no record is ever stored under a workflow fingerprint.)
IntakeReceive ==
    /\ intake.pc \in {"idle", "done"}
    /\ intakes < MaxIntakes
    /\ intakes' = intakes + 1
    /\ \E kind \in Kinds, entries \in IntakeEntrySeqs :
         LET pr == SelectSeq(entries, LAMBDA e : e \notin anchors)
         IN  intake' = IF pr = << >>
                       THEN [kind |-> kind, entries |-> entries, new_entries |-> << >>,
                             pc |-> "done", i |-> 0, code |-> "duplicates_only"]
                       ELSE [kind |-> kind, entries |-> entries,
                             new_entries |-> ZipNew(entries, pr),
                             pc |-> "create", i |-> 1, code |-> "none"]
    /\ UNCHANGED << anchors, ever_launched >>
    /\ UNCHANGED OtherThanOrphan

\* One iteration of the creation loop: create_transaction stores the entry
\* record and its index entry and returns True, or the Redis pipeline fails,
\* nothing is stored, False is returned and APITransactionCreationError is
\* raised; the records of the earlier iterations stay.
IntakeCreate ==
    /\ intake.pc = "create"
    /\ \E success \in BOOLEAN :
         IF success
         THEN /\ anchors' = anchors \cup {intake.new_entries[intake.i]}
              /\ intake' = IF intake.i < Len(intake.new_entries)
                           THEN [intake EXCEPT !.i = @ + 1]
                           ELSE [intake EXCEPT !.pc = "launch"]
         ELSE /\ anchors' = anchors
              /\ intake' = [intake EXCEPT !.pc = "done", !.code = "creation_error"]
    /\ UNCHANGED << ever_launched, intakes >>
    /\ UNCHANGED OtherThanOrphan

\* The launch: W-A calls execute_workflow_async once per new entry and raises
\* APIWorkflowStartupError when no call returned True; W-B makes one call
\* for all new entries and raises when it returned False. Nothing is removed
\* from the store.
IntakeLaunch ==
    /\ intake.pc = "launch"
    /\ \E started \in SUBSET (1..Len(intake.new_entries)) :
         /\ intake.kind = "ddjj_workflow"
                => started \in {{}, 1..Len(intake.new_entries)}
         /\ ever_launched' =
                ever_launched \cup {intake.new_entries[p] : p \in started}
         /\ intake' = [intake EXCEPT
                         !.pc = "done",
                         !.code = IF started = {} THEN "startup_error"
                                  ELSE "accepted"]
    /\ UNCHANGED << anchors, intakes >>
    /\ UNCHANGED OtherThanOrphan

NextIntakeErrors ==
    \/ IntakeReceive
    \/ IntakeCreate
    \/ IntakeLaunch

SpecIntakeErrors == Init /\ [][NextIntakeErrors]_vars

\* ------------------------------------------- the W-A fingerprint on its own
InitHash ==
    /\ wf = CcmaWorkflow
    /\ EngineIdle
    /\ SystemIdle
    /\ StoreIdle
    /\ ClassifierIdle
    /\ RetryIdle
    /\ CancelIdle
    /\ CleanupIdle
    /\ ScalerIdle
    /\ CorrelationIdle
    /\ MonitorIdle
    /\ OrphanIdle
    /\ HashStart

SpecHash == InitHash /\ [][NextHash]_vars

InitMonitor ==
    /\ wf = CcmaWorkflow
    /\ EngineIdle
    /\ SystemIdle
    /\ StoreIdle
    /\ ClassifierIdle
    /\ RetryIdle
    /\ CancelIdle
    /\ CleanupIdle
    /\ ScalerIdle
    /\ CorrelationIdle
    /\ MonitorStart
    /\ OrphanIdle
    /\ HashIdle

SpecMonitor == InitMonitor /\ [][NextMonitor]_vars

SpecMonitorFair == InitMonitor /\ [][NextMonitorEnds]_vars /\ MonitorFairness

\* ------------------------------------------------------- engine properties
\* The position of x in a sequence that holds it.
Pos(seq, x) == CHOOSE p \in 1..Len(seq) : seq[p] = x

\* The steps reachable from the set S along depends_on in at most k hops.
RECURSIVE Reach(_, _, _)
Reach(w, S, k) ==
    IF k = 0 THEN S
    ELSE Reach(w, S \cup UNION {w.depends_on[j] : j \in S}, k - 1)

\* The depends_on relation has no cycle: no step depends on itself, directly
\* or through other steps.
Acyclic(w) == \A i \in 1..w.n : i \notin Reach(w, w.depends_on[i], w.n)

SomeRequiredStepFailed ==
    \E i \in StepIds : wf.required[i] /\ steps[i].status = "failed"

\* C4, as claimed: the returned status is FAILED iff some required step is
\* FAILED, and COMPLETED otherwise.
C4_FailedIffRequiredStepFailed ==
    epc = "done" =>
        /\ result.status \in {"failed", "completed"}
        /\ (result.status = "failed") <=> SomeRequiredStepFailed

\* C4, amended: the returned status is FAILED iff some required step is
\* FAILED or get_step_execution_order raised (the except branch, which sets
\* errors["orchestrator"]); the order is raised exactly for a dependency
\* cycle; in every other case the status is COMPLETED.
C4_FailedIffRequiredFailedOrRaised ==
    epc = "done" =>
        /\ result.status \in {"failed", "completed"}
        /\ (result.status = "failed") <=>
               (SomeRequiredStepFailed \/ result.orchestrator_error)
        /\ result.orchestrator_error <=> ~Acyclic(wf)
        /\ result.orchestrator_error => ~SomeRequiredStepFailed

\* A run in which a non-required step and a required step both failed.
C4_Witness ==
    /\ epc = "done"
    /\ result.status = "failed"
    /\ SomeRequiredStepFailed
    /\ \E i \in StepIds : ~wf.required[i] /\ steps[i].status = "failed"

\* C5, as claimed: when execute_workflow returns every step is COMPLETED,
\* FAILED, SKIPPED or PENDING, PENDING only if its handler was never reached,
\* and SKIPPED only if a required dependency is FAILED.
C5_StepsEndSettled ==
    epc = "done" =>
        \A i \in StepIds :
            /\ steps[i].status \in {"completed", "failed", "skipped", "pending"}
            /\ steps[i].status = "pending" => calls[i] = 0
            /\ steps[i].status = "skipped" =>
                   \E d \in wf.depends_on[i] :
                       wf.required[d] /\ steps[d].status = "failed"

C7_CycleFailsFast ==
    ~Acyclic(wf) =>
        /\ \A i \in StepIds : steps[i].status = "pending" /\ calls[i] = 0
        /\ invoked = << >>
        /\ epc \notin {"loop", "step", "finalize"}
        /\ epc \in {"publish", "cleanup", "done"} =>
               result.status = "failed" /\ result.orchestrator_error

\* The two-step cycle (A depends on B, B on A) has returned.
C7_Witness ==
    /\ wf.id = "generic"
    /\ \A i \in StepIds : wf.depends_on[i] = StepIds \ {i}
    /\ epc = "done"

\* C8: a FAILED non-required step does not stop the run: unless a required
\* step FAILED, every step of the order is reached; when every required step
\* COMPLETED the status is COMPLETED and every FAILED step's error is in
\* errors under the step's name.
C8_NonRequiredFailureNotFatal ==
    (epc = "done" /\ ~result.orchestrator_error) =>
        /\ ~SomeRequiredStepFailed =>
               \A i \in StepIds : steps[i].status # "pending"
        /\ (\A i \in StepIds : wf.required[i] => steps[i].status = "completed") =>
               /\ result.status = "completed"
               /\ \A i \in StepIds : steps[i].status = "failed" => i \in result.errors

\* A non-required step failed after more than one attempt, a required step
\* later in the order completed, and the run is COMPLETED.
C8_Witness ==
    /\ epc = "done"
    /\ result.status = "completed"
    /\ \E i, j \in StepIds :
          /\ ~wf.required[i] /\ steps[i].status = "failed" /\ calls[i] > 1
          /\ i \in result.errors
          /\ wf.required[j] /\ steps[j].status = "completed"
          /\ Pos(order, i) < Pos(order, j)

\* ------------------------------------------------------ service properties
\* The position of a status on CREATED -> PENDING -> RUNNING -> terminal.
Rank(status) ==
    CASE status = "created" -> 0
      [] status = "pending" -> 1
      [] status = "running" -> 2
      [] OTHER -> 3

C2_EntryCreatedAndLaunchedOnce ==
    \A h \in EntryKeys : created[h] <= 1 /\ launched[h] <= 1

\* C3: of two identical CCMA requests that have both returned, one got the
\* normal response and the other DuplicateTransactionError (409) carrying
\* the first one's run id.
C3_IdenticalRequestsOneConflict ==
    \A a, b \in 1..NReq :
        (/\ a # b
         /\ ipc[a] = "done" /\ ipc[b] = "done"
         /\ req[a].kind = "ccma_workflow" /\ req[b] = req[a]
         /\ response[a].code # "conflict")
        => /\ response[a].code = "ok"
           /\ response[b].code = "conflict"
           /\ response[b].existing = RunId(a)

\* Whether the task's log holds the terminal store write, made or found
\* without a record to write, before position q.
WriteBefore(t, q) ==
    \E p \in 1..(q - 1) : tlog[t][p] \in {"write", "no_record"}

\* C9: in every background task the last step's completion comes before the
\* terminal store write, and that write before the event's hand-off to the
\* publisher.
C9_StepsThenWriteThenPublish ==
    \A t \in TaskIds :
        \A q \in 1..Len(tlog[t]) :
            /\ tlog[t][q] = "publish" => WriteBefore(t, q)
            /\ tlog[t][q] \in {"write", "no_record"} =>
                   \E p \in 1..(q - 1) : tlog[t][p] = "steps"

\* C10: every background task that has ended went through a terminal store
\* write and handed a WorkflowFinishedEvent to the publisher.
C10_EveryEndingWritesAndPublishes ==
    \A t \in TaskIds :
        tpc[t] = "done" =>
            /\ WriteBefore(t, Len(tlog[t]) + 1)
            /\ \E p \in 1..Len(tlog[t]) : tlog[t][p] = "publish"

\* C11: for every run whose background tasks have all ended, exactly one
\* WorkflowFinishedEvent carrying its run id was handed to the publisher.
C11_OneFinishedEventPerRun ==
    \A r \in 1..NReq :
        (TasksOf(r) # {} /\ \A t \in TasksOf(r) : tpc[t] = "done")
            => published[r].success + published[r].failure = 1

C13_DuplicateFoundUntilTtl ==
    \A h \in StoreHashes :
        (inserted[h].key # 0 /\ clock < inserted[h].at + inserted[h].ttl)
            => RedisCheckDuplicate(redis, h) = inserted[h].key

\* The record under k holds fingerprint h and the index maps h to k.
BothWritten(st, k, h) ==
    /\ st.records[k] # NoTx
    /\ st.records[k].transaction_hash = h
    /\ st.index[h] = k

C15_BackendsReturnTheSame ==
    last.ok => last.redis = last.memory

GetWorkflowStatus(rs, key) ==
    IF rs[key] = NoRecord THEN "not_found" ELSE rs[key].status

\* C17: once intake has launched work for a request and answered with its
\* run id, the monitor was spawned and a status lookup for the run id finds
\* the Run, running or already ended.
C17_LaunchedRunIsStored ==
    \A r \in 1..NReq :
        response[r].code = "ok"
            => /\ mpc[r] # "none"
               /\ GetWorkflowStatus(records, response[r].exchange_id)
                      \in {"running", "completed", "failed"}

\* A recorded error of a retryable kind: a retryable exception, or the
\* message of one.
RetryableKindRecorded(errors) ==
    \E i \in 1..Len(errors) :
        \/ IsRetryableError(errors[i])
        \/ errors[i].kind = "string" /\ errors[i].tag = "Timeout occurred while waiting"

\* C18: the first sweep over a store whose one Run is FAILED, was never
\* retried and has a retryable error recorded, puts retry count 1 into the
\* Run, makes it PENDING, relaunches it and returns {1, 1, 0}.
C18_SweepRetriesFailedRun ==
    [][(sweeps = 0 /\ sweeps' = 1 /\ RetryableKindRecorded(transaction_data.errors))
          => /\ stats' = [total_found |-> 1, retry_initiated |-> 1, retry_failed |-> 0]
             /\ transaction_data'.retry_count = 1 \/ transaction_data'.results_retry_count = 1
             /\ transaction_data'.status = "pending"
             /\ relaunches' = 1]_vars

RECURSIVE NoExceptionIn(_)
NoExceptionIn(values) ==
    \A i \in 1..Len(values) :
        /\ ~IsException(values[i])
        /\ NoExceptionIn(values[i].items)

TransientTexts == {"Timeout occurred while waiting"}

C23_CleanupOnEveryExit ==
    [][/\ (epc' = "done") => (cleaned' = 1)
       /\ (epc = "cleanup" /\ epc' = "done") => (result' = result)
       /\ (cleaned >= 1) => (calls' = calls /\ result' = result)]_vars

\* A run that completed although a close() inside cleanup raised.
C23_Witness ==
    /\ epc = "done"
    /\ cleaned = 1
    /\ cleanup_error
    /\ result.status = "completed"
    /\ \E i \in StepIds : calls[i] > 0

\* C24: ensure_capacity returns success after issuing a scale-up only if the
\* hub reported the target number of non-DOWN nodes within the readiness
\* wait; when the wait times out it returns failure.
C24_SuccessOnlyWhenNodesReady ==
    (/\ scall.op = "ensure_capacity"
     /\ scall.issued
     /\ scall.docker = "ok")
        => (scall.ret <=> scall.ready)

\* C25: on an idle check whose control-plane command, if any, succeeds: with
\* active sessions only last_activity is reset; without, current_nodes goes
\* down by exactly one and last_activity is reset if and only if the idle
\* time is at least idle_timeout and current_nodes > min_nodes; in every
\* other case neither changes.
C25_IdleCheckEffect ==
    (scall.op = "check" /\ scall.docker = "ok")
        => IF scall.active > 0
           THEN /\ current_nodes = scall.nodes_before
                /\ last_activity_time = scall.at
           ELSE IF /\ scall.at - scall.activity_before >= IdleTimeout
                   /\ scall.nodes_before > min_nodes
           THEN /\ current_nodes = scall.nodes_before - 1
                /\ last_activity_time = scall.at
           ELSE /\ current_nodes = scall.nodes_before
                /\ last_activity_time = scall.activity_before

\* C26: the engine executions in progress on worker threads never exceed
\* sessions_per_node x current_nodes.
C26_ExecutionsWithinCapacity ==
    executing <= sessions_per_node * current_nodes

\* C27: every engine execution operates on the workflow instance built from
\* its own params: when a worker thread runs execute_workflow, the instance
\* registered under its workflow_id is the one that thread created.
C27_ExecutionUsesOwnInstance ==
    [][\A t \in TaskIds :
          (tpc[t] = "engine" /\ tpc'[t] = "unregister")
              => workflows[TaskKind(t)] = t]_vars

\* C28: correlation-id scopes are properly nested: in every scope the id is
\* the Run's at the scope's first store write, and when the scope has been
\* left, by return or by error, the id in its context is the value it had
\* when the scope was entered.
C28_ScopesProperlyNested ==
    \A s \in Scopes :
        /\ scope[s].pc = "wrote" => scope[s].at_write = "run"
        /\ scope[s].pc = "closed" => scope[s].exit = scope[s].entry

\* C29: for a step with retry_count = n >= 1 the handler is invoked at most n
\* times; an invocation leaves the step COMPLETED (and it is not invoked
\* again), FAILED exactly when it was the n-th, or RUNNING for the next
\* attempt; and every step that ended COMPLETED or FAILED has added exactly
\* one to steps_completed or to steps_failed.
C29_AttemptsAndCounters ==
    [][\A i \in StepIds :
          /\ calls'[i] <= wf.retry_count[i]
          /\ steps[i].status = "completed" => calls'[i] = calls[i]
          /\ calls'[i] = calls[i] + 1
                => /\ steps[i].status = "running"
                   /\ steps'[i].status \in {"completed", "failed", "running"}
                   /\ steps'[i].status = "failed" => calls'[i] = wf.retry_count[i]
                   /\ steps'[i].status = "running" => calls'[i] < wf.retry_count[i]
          /\ result'.steps_completed =
                Cardinality({j \in StepIds : steps'[j].status = "completed"})
          /\ result'.steps_failed =
                Cardinality({j \in StepIds : steps'[j].status = "failed"})]_vars

\* A run in which one step failed after all its two attempts and another
\* completed at its first.
C29_Witness ==
    /\ epc = "done"
    /\ \E i, j \in StepIds :
         /\ wf.retry_count[i] = 2 /\ calls[i] = 2 /\ steps[i].status = "failed"
         /\ wf.retry_count[j] = 2 /\ calls[j] = 1 /\ steps[j].status = "completed"
    /\ result.steps_failed = 1
    /\ result.steps_completed = 1

\* C30: once a required step has ended FAILED no handler is invoked any more
\* and the result's status is FAILED when the engine returns; after a
\* non-required step has failed the engine goes on to the next step in order.
C30_RequiredFailureAborts ==
    [][/\ (\E i \in StepIds : steps[i].status = "failed" /\ wf.required[i])
            => /\ calls' = calls
               /\ epc' = "done" => result'.status = "failed"
       /\ \A i \in StepIds :
            (/\ calls'[i] = calls[i] + 1
             /\ steps'[i].status = "failed"
             /\ ~wf.required[i])
                => /\ idx' = idx + 1
                   /\ epc' = IF idx < Len(order) THEN "loop" ELSE "finalize"]_vars

\* A run whose required first step failed while a later step, one that does
\* not depend on it, was never invoked.
C30_Witness ==
    /\ epc = "done"
    /\ result.status = "failed"
    /\ \E i, j \in StepIds :
         /\ steps[i].status = "failed" /\ wf.required[i]
         /\ j \notin {i} /\ i \notin wf.depends_on[j]
         /\ calls[j] = 0 /\ steps[j].status = "pending"

\* C31: when execute_workflow returns, every step with a required dependency
\* that is FAILED is SKIPPED and its handler was never invoked.
C31_DependentsOfFailedAreSkipped ==
    epc = "done" =>
        \A i \in StepIds :
            ShouldSkipStep(steps, i)
                => steps[i].status = "skipped" /\ calls[i] = 0

\* The reference topological sort: repeatedly emit, among the steps not yet
\* emitted whose dependencies have all been emitted, the one defined earliest.
RECURSIVE ReferenceSort(_, _)
ReferenceSort(w, emitted) ==
    LET done == {emitted[p] : p \in 1..Len(emitted)}
        ready == {i \in 1..w.n : i \notin done /\ w.depends_on[i] \subseteq done}
    IN  IF ready = {} THEN emitted
        ELSE ReferenceSort(w, Append(emitted,
                                     CHOOSE i \in ready : \A j \in ready : i <= j))

\* C32: for every acyclic step graph get_step_execution_order equals the
\* reference topological sort that breaks ties by insertion order.
C32_OrderEqualsReferenceSort ==
    Acyclic(wf) => GetStepExecutionOrder(wf).order = ReferenceSort(wf, << >>)

\* C33: update_status on an existing record changes only that record's status
\* and results, the new results being the old ones overridden key by key by
\* the supplied ones; every other field of the record, every other record
\* and the hash index are unchanged; on a key with no record nothing changes.
\* Stated for both backends.
C33_UpdateStatusFrame ==
    [][(last'.op = "update_status" /\ last'.n # last.n) =>
          LET k == last'.key
          IN  /\ \A j \in StoreKeys \ {k} :
                     /\ redis'.records[j] = redis.records[j]
                     /\ memory'.records[j] = memory.records[j]
              /\ redis'.index = redis.index
              /\ memory'.order = memory.order
              /\ redis.records[k] = NoTx => redis' = redis
              /\ memory.records[k] = NoTx => memory' = memory
              /\ redis.records[k] # NoTx =>
                     \E res \in ResultMaps :
                         redis'.records[k] =
                             [redis.records[k] EXCEPT
                                 !.status = redis'.records[k].status,
                                 !.results = @ \cup res]
              /\ memory.records[k] # NoTx =>
                     \E res \in ResultMaps :
                         memory'.records[k] =
                             [memory.records[k] EXCEPT
                                 !.status = memory'.records[k].status,
                                 !.results = @ \cup res]]_vars

C35_NewEntriesAreTheOnesClassifiedNew ==
    \A r \in 1..NReq :
        (ipc[r] \in {"create", "launch", "set_running", "done"}
            /\ processed[r] # << >>)
            => new_entries[r] = processed[r]

\* C36: after any sequence of ensure_capacity, scale_up and scale_down calls
\* with any arguments and control-plane outcomes, current_nodes is at most
\* max_nodes, a scale_down that lowered current_nodes left it at or above
\* min_nodes, and a call whose command failed left current_nodes as it was.
C36_NodeCountWithinLimits ==
    /\ current_nodes <= max_nodes
    /\ (scall.op = "scale_down" /\ current_nodes < scall.nodes_before)
           => current_nodes >= min_nodes
    /\ (scall.issued /\ scall.docker # "ok")
           => current_nodes = scall.nodes_before

C36_Witness ==
    /\ scall.op = "scale_up"
    /\ scall.nodes_before + scall.arg > max_nodes
    /\ scall.issued
    /\ scall.docker = "ok"
    /\ current_nodes = max_nodes

\* C37: _running_workflows holds an entry for a run id exactly while some
\* background task of that run id is unfinished, the entry refers to an
\* unfinished task, and at most one task per run id is in progress.
C37_RegistryMatchesRunningTasks ==
    \A r \in 1..NReq :
        LET unfinished == {t \in TaskIds : t[1] = r /\ tpc[t] \notin {"none", "done"}}
        IN  /\ running_workflows[r] # NoTask <=> unfinished # {}
            /\ running_workflows[r] # NoTask => running_workflows[r] \in unfinished
            /\ Cardinality(unfinished) <= 1

C39_NoOrphanAnchorsAfterError ==
    /\ intake.code \in {"creation_error", "startup_error"}
           => \A p \in 1..Len(intake.entries) :
                  intake.entries[p] \in anchors
                      => intake.entries[p] \in ever_launched
    /\ intake.code = "duplicates_only"
           => \A p \in 1..Len(intake.entries) : intake.entries[p] \in ever_launched

\* C40: two W-A entries that differ in a critical field (an optional one may
\* be absent in either) have different canonical strings and fingerprints.
C40_FingerprintInjectiveOnCriticalFields ==
    (entry_hash[1] # "none" /\ entry_hash[2] # "none"
        /\ CriticalFields(entry_pair[1]) # CriticalFields(entry_pair[2]))
        => entry_hash[1] # entry_hash[2]

====
